---- MODULE Spec2Model ----
(***************************************************************************)
(* Token lifecycle of everything-admin: JWT expiry decoding, the freshness *)
(* check, the downstream exchange / refresh calls, the jwt callback of     *)
(* auth.ts, ensureBaseAuth and getTimeoffList.                             *)
(***************************************************************************)
EXTENDS Integers, Sequences, FiniteSets, TLC

VARIABLES
    now,        \* Date.now(), milliseconds
    uFn,        \* jwt utilities: the function under evaluation
    uToken,     \* jwt utilities: the token argument (optional string)
    uExpiresAt, \* jwt utilities: the expiresAt argument (optional number)
    uRes,       \* jwt utilities: [done, expiration, expired]
    xFn,        \* exchange / refresh services: the function under evaluation
    xOpts,      \* exchange / refresh services: the options passed
    xOutcome,   \* exchange / refresh services: what the downstream HTTP call does
    xRes,       \* exchange / refresh services: the settled call
    variant,    \* where the deployment keeps Base tokens: "session" or "context"
    cookie,     \* session-embedded: the persisted session token (optional)
    tok,        \* session-embedded: the token the running jwt callback works on
    jwtPc,      \* session-embedded: "idle", "sso" (awaiting ssoGoogle), "refresh"
    jwtHist,    \* session-embedded: what the current / last jwt callback did
    session,    \* request context: what auth() returns for the request (optional)
    ctx,        \* request context: the token store of the request (optional)
    reqPc,      \* request context: "idle", "refresh", "exchange", "list"
    call,       \* request context: who runs ensureBaseAuth, getTimeoffList options
    ensHist,    \* request context: what the current / last ensureBaseAuth did
    listHist,   \* request context: what the current / last getTimeoffList did
    ctxFresh,   \* request context: the stored credential was fresh when stored
    fKind,      \* downstream call: "client" (FetchClient.request) or "platform" (fetch)
    fAnswer,    \* downstream call: when and how the downstream answers, if ever
    fPc,        \* downstream call: "idle", "pending", "settled"
    fElapsed,   \* downstream call: milliseconds since the call started
    fTimer,     \* downstream call: "none", "armed", "fired" (the timeout timer)
    fDelivered, \* downstream call: the answer of the downstream has arrived
    fHist,      \* downstream call: [attempts, settles, outcome]
    mapStore,   \* token stores: the Map keyed by request id
    alsStore,   \* token stores: the AsyncLocalStorage slot of each request's async chain
    rState,     \* token stores: each request "new", "active" or "finished"
    bPc,        \* token stores: each rendering branch "idle", "exchange" or "done"
    sHist,      \* token stores: [exchanges per request, last getBaseTokens]
    hVariant,   \* webhook: which POST handler serves /api/webhook
    hBody,      \* webhook: the body of the request
    hRun,       \* webhook: [pc, payload, result, invoked, received] of the running POST
    hResp,      \* webhook: the HTTP response
    hHandler,   \* webhook: what the handler registered under "custom" does
    cfg,        \* configuration: process.env, the state of env.ts, requests served
    mw,         \* route protection: the request, its session and the response
    hdr,        \* FetchClient.request: method, body, headers option, prepared headers
    race,       \* concurrent session reads: cookie, each read's token, the downstream
    api,        \* GET /api/timeoff: the request, the list call and the response
    goog        \* Google-refresh jwt callback: clock, session token, last refresh

utilVars == <<uFn, uToken, uExpiresAt, uRes>>
xVars == <<xFn, xOpts, xOutcome, xRes>>
jwtVars == <<cookie, tok, jwtPc, jwtHist>>
reqVars == <<session, ctx, reqPc, call, ensHist, listHist, ctxFresh>>
mainVars == <<variant, jwtVars, reqVars>>
fetchVars == <<fKind, fAnswer, fPc, fElapsed, fTimer, fDelivered, fHist>>
storeVars == <<mapStore, alsStore, rState, bPc, sHist>>
hookVars == <<hVariant, hBody, hRun, hResp, hHandler>>
auxVars == <<fetchVars, storeVars, hookVars>>
extVars == <<cfg, mw, hdr, race, api, goog>>
baseVars == <<now, utilVars, xVars, mainVars, auxVars>>
notCfg == <<baseVars, mw, hdr, race, api, goog>>
notMw == <<baseVars, cfg, hdr, race, api, goog>>
notHdr == <<baseVars, cfg, mw, race, api, goog>>
notRace == <<baseVars, cfg, mw, hdr, api, goog>>
notApi == <<baseVars, cfg, mw, hdr, race, goog>>
notGoog == <<baseVars, cfg, mw, hdr, race, api>>
vars == <<now, utilVars, xVars, mainVars, auxVars, extVars>>

(***************************************************************************)
(* Optional values (undefined / null are the empty set).                   *)
(***************************************************************************)
None == {}
Some(x) == {x}
Val(o) == CHOOSE x \in o : TRUE
Opt(S) == {None} \cup {Some(x) : x \in S}

\* JavaScript truthiness of an optional string: present and not "".
TruthyStr(o) == o # None /\ Val(o) # <<>>
\* JavaScript truthiness of an optional number: present and not 0.
TruthyNum(o) == o # None /\ Val(o) # 0

(***************************************************************************)
(* Bounds.                                                                 *)
(***************************************************************************)
MaxTokenLen == 4

(***************************************************************************)
(* Strings are sequences of characters.  A payload segment is one          *)
(* character standing for what Buffer.from(seg, "base64url") followed by   *)
(* JSON.parse makes of it.                                                 *)
(***************************************************************************)
Dot == "."

\* JSON.parse(Buffer.from(seg, "base64url").toString("utf-8")) for the
\* one-character segments; every other segment is not JSON (parse throws).
PayloadOf ==
    [c \in {"n", "o", "t", "z", "A", "B", "C"} |->
        CASE c = "n" -> [kind |-> "null",   expType |-> "absent", exp |-> 0]
          [] c = "o" -> [kind |-> "object", expType |-> "absent", exp |-> 0]
          [] c = "t" -> [kind |-> "object", expType |-> "string", exp |-> 0]
          [] c = "z" -> [kind |-> "object", expType |-> "number", exp |-> 0]
          [] c = "A" -> [kind |-> "object", expType |-> "number", exp |-> 300]
          [] c = "B" -> [kind |-> "object", expType |-> "number", exp |-> 600]
          [] c = "C" -> [kind |-> "object", expType |-> "number", exp |-> 900]]

NotJson == [kind |-> "throws", expType |-> "absent", exp |-> 0]

DecodePayload(seg) ==
    IF Len(seg) = 1 /\ seg[1] \in DOMAIN PayloadOf THEN PayloadOf[seg[1]] ELSE NotJson

\* String.prototype.split(".")
RECURSIVE Split(_)
Split(s) ==
    IF Len(s) = 0 THEN << <<>> >>
    ELSE LET init == Split(SubSeq(s, 1, Len(s) - 1))
             c == s[Len(s)]
         IN  IF c = Dot THEN Append(init, <<>>)
             ELSE [init EXCEPT ![Len(init)] = Append(@, c)]

\* sample credentials: expiry 300 s, 600 s, 900 s, and one with no payload
TokA == <<"h", Dot, "A", Dot>>
TokB == <<"h", Dot, "B", Dot>>
TokC == <<"h", Dot, "C", Dot>>
TokOpaque == <<"h">>

fiveMinutes == 5 * 60 * 1000

getJwtExpiration_AnyParts(token) ==
    LET parts == Split(token) IN
    IF Len(parts) < 2 \/ parts[2] = <<>> THEN None
    ELSE LET payload == DecodePayload(parts[2]) IN
         IF payload.kind = "object" /\ payload.expType = "number" /\ payload.exp # 0
         THEN Some(payload.exp * 1000)
         ELSE None

getJwtExpiration(token) ==
    LET parts == Split(token) IN
    IF Len(parts) # 3 \/ parts[2] = <<>> THEN None
    ELSE LET payload == DecodePayload(parts[2]) IN
         \* "throws" and "null" both end in the catch block
         IF payload.kind = "object" /\ payload.expType = "number" /\ payload.exp # 0
         THEN Some(payload.exp * 1000)
         ELSE None

isTokenExpired_Strict(token, t) ==
    LET expiration == getJwtExpiration(token) IN
    IF ~TruthyNum(expiration) THEN TRUE
    ELSE t > Val(expiration) - fiveMinutes

isTokenExpired(token, t) ==
    LET expiration == getJwtExpiration(token) IN
    IF ~TruthyNum(expiration) THEN TRUE
    ELSE t >= Val(expiration) - fiveMinutes

isExpirationExpired(expiresAt, t) ==
    IF ~TruthyNum(expiresAt) THEN TRUE
    ELSE t >= Val(expiresAt) - fiveMinutes

isBaseTokenExpired(expiresAt, t) ==
    IF ~TruthyNum(expiresAt) THEN FALSE
    ELSE t >= Val(expiresAt) - fiveMinutes

shouldRefreshBaseToken(accessToken, expiresAt, t) ==
    IF ~TruthyStr(accessToken) THEN FALSE
    ELSE isTokenExpired(Val(accessToken), t)
         \/ (expiresAt # None /\ isExpirationExpired(expiresAt, t))

(***************************************************************************)
(* State of the two credential stores.                                     *)
(***************************************************************************)
\* the session token before any Base token is stored
NewToken(user, account) ==
    [id |-> user.id, email |-> user.email,
     googleAccessToken |-> account.access_token,
     googleRefreshToken |-> account.refresh_token,
     baseAccessToken |-> None, baseRefreshToken |-> None, baseExpiresAt |-> None]

NoUser == [id |-> None, email |-> None]
NoAccount == [access_token |-> None, refresh_token |-> None]

NoJwtHist == [signIn |-> FALSE, sso |-> "none", issued |-> FALSE,
              refresh |-> "none", freshAtIssue |-> FALSE,
              respAccess |-> None, respRefresh |-> None]

NoCallInfo == [caller |-> "none", optToken |-> None]

NoEnsHist == [nRefresh |-> 0, nExchange |-> 0, refresh |-> "none",
              freshAtIssue |-> FALSE, respAccess |-> None, respRefresh |-> None,
              outcome |-> "none", returned |-> None]

NoListHist == [sent |-> FALSE, token |-> None, freshAtSend |-> FALSE,
               viaEnsure |-> FALSE, result |-> "none"]

JwtIdle ==
    /\ cookie = None
    /\ tok = NewToken(NoUser, NoAccount)
    /\ jwtPc = "idle"
    /\ jwtHist = NoJwtHist

ReqIdle ==
    /\ session = None
    /\ ctx = None
    /\ reqPc = "idle"
    /\ call = NoCallInfo
    /\ ensHist = NoEnsHist
    /\ listHist = NoListHist
    /\ ctxFresh = FALSE

MainIdle == variant = "none" /\ JwtIdle /\ ReqIdle

NoResult == [done |-> FALSE, expiration |-> None, expired |-> FALSE]

UtilIdle ==
    /\ uFn = "none" /\ uToken = None /\ uExpiresAt = None /\ uRes = NoResult

NoAnswer == [at |-> 0, kind |-> "never"]
NoFetchHist == [attempts |-> 0, settles |-> 0, outcome |-> "none"]

FetchIdle ==
    /\ fKind = "none" /\ fAnswer = NoAnswer /\ fPc = "idle" /\ fElapsed = 0
    /\ fTimer = "none" /\ fDelivered = FALSE /\ fHist = NoFetchHist

Requests == {"A", "B"}
Branches == {"layout", "page"}


StoreIdle ==
    /\ mapStore = [r \in Requests |-> None]
    /\ alsStore = [r \in Requests |-> None]
    /\ rState = [r \in Requests |-> "new"]
    /\ bPc = [r \in Requests |-> [b \in Branches |-> "idle"]]
    /\ sHist = [exchanges |-> [r \in Requests |-> 0], lastGet |-> [done |-> FALSE, req |-> "A", map |-> None, als |-> None]]

\* JSON values of the webhook payload
JAbsent == [t |-> "absent", s |-> ""]
JString(x) == [t |-> "string", s |-> x]

NoData == [t |-> "absent", id |-> JAbsent, name |-> JAbsent]
NoPayload == [json |-> "none", messageType |-> JAbsent, data |-> NoData]
NoProcessed == [present |-> FALSE, processedId |-> "", processedName |-> ""]
\* form: "typed" for a { success: boolean, message?: string, data? } object,
\* else what is wrong with the value; success holds the truthiness of .success
NoHandlerResult == [success |-> FALSE, message |-> [text |-> "", arg |-> ""],
                    data |-> NoProcessed, form |-> "typed"]
NoHandler == [does |-> "none", value |-> NoHandlerResult, error |-> "none"]
NoResponse == [status |-> 0, body |-> NoHandlerResult]
NoRun == [pc |-> "idle", payload |-> NoPayload, result |-> NoHandlerResult,
          invoked |-> 0, received |-> NoPayload, thrown |-> FALSE]

HookIdle ==
    /\ hVariant = "none" /\ hBody = NoPayload /\ hRun = NoRun /\ hResp = NoResponse
    /\ hHandler = NoHandler

AuxIdle == FetchIdle /\ StoreIdle /\ HookIdle

\* the subsystem is not part of the running specification
Off == [pc |-> "off"]

ExtIdle ==
    /\ cfg = Off /\ mw = Off /\ hdr = Off /\ race = Off /\ api = Off
    /\ goog = Off

(***************************************************************************)
(* The downstream HTTP call and the services built on it.                  *)
(***************************************************************************)
AbsentField == [t |-> "absent", s |-> <<>>]
NumberField == [t |-> "number", s |-> <<>>]
StringField(x) == [t |-> "string", s |-> x]

\* a JSON field as the optional string zod hands on
FieldToOpt(f) == IF f.t = "string" THEN Some(f.s) ELSE None

NoBody(j) == [json |-> j, code |-> None, access |-> AbsentField, refresh |-> AbsentField]
ObjectBody(c, a, r) == [json |-> "object", code |-> c, access |-> a, refresh |-> r]

NetworkError == [kind |-> "network", status |-> 0, body |-> NoBody("invalid")]
TimedOut == [kind |-> "timeout", status |-> 0, body |-> NoBody("invalid")]
HttpResponse(st, b) == [kind |-> "response", status |-> st, body |-> b]

\* Response.ok
ResponseOk(status) == status >= 200 /\ status <= 299

Thrown == [thrown |-> TRUE, success |-> FALSE, hasData |-> FALSE,
           access_token |-> None, refresh_token |-> None, expiresAt |-> None]
Failure == [thrown |-> FALSE, success |-> FALSE, hasData |-> FALSE,
            access_token |-> None, refresh_token |-> None, expiresAt |-> None]
Success(a, r) == [thrown |-> FALSE, success |-> TRUE, hasData |-> TRUE,
                  access_token |-> a, refresh_token |-> r, expiresAt |-> None]

\* FetchClient.request with parseJson = true and no parserError config:
\* [thrown, data], data being the parsed body (json = "empty" parses to null).
request_NoOkCheck(outcome) ==
    IF outcome.kind # "response" THEN [thrown |-> TRUE, data |-> NoBody("invalid")]
    ELSE IF outcome.body.json = "invalid" THEN [thrown |-> TRUE, data |-> NoBody("invalid")]
    ELSE [thrown |-> FALSE, data |-> outcome.body]

request(outcome) ==
    IF outcome.kind # "response" THEN [thrown |-> TRUE, data |-> NoBody("invalid")]
    ELSE IF ~ResponseOk(outcome.status) THEN [thrown |-> TRUE, data |-> NoBody("invalid")]
    ELSE IF outcome.body.json = "invalid" THEN [thrown |-> TRUE, data |-> NoBody("invalid")]
    ELSE [thrown |-> FALSE, data |-> outcome.body]

\* ssoGoogleDataSchema / refreshTokenDataSchema .safeParse(data).success
ssoGoogleDataSchema(data) ==
    /\ data.json = "object"
    /\ data.access.t \in {"absent", "string"}
    /\ data.refresh.t \in {"absent", "string"}

refreshTokenDataSchema(data) ==
    /\ data.json = "object"
    /\ data.access.t \in {"absent", "string"}
    /\ data.refresh.t \in {"absent", "string"}

\* ssoGoogleOptionsSchema: a valid email and a non-empty accessToken
ssoGoogleOptionsSchema(opts) == opts.emailValid /\ TruthyStr(opts.token)

\* refreshTokenOptionsSchema: refreshToken is optional, not "" when given
refreshTokenOptionsSchema(opts) == opts.token = None \/ Val(opts.token) # <<>>

\* success without the check that both tokens are present
ssoGoogle_AnyTokens(opts, outcome) ==
    IF ~ssoGoogleOptionsSchema(opts) THEN Failure
    ELSE LET result == request(outcome) IN
         IF result.thrown THEN Thrown
         ELSE IF ~ssoGoogleDataSchema(result.data) THEN Failure
         ELSE Success(FieldToOpt(result.data.access), FieldToOpt(result.data.refresh))

\* ssoGoogle over the fetch client
ssoGoogle(opts, outcome) ==
    IF ~ssoGoogleOptionsSchema(opts) THEN Failure
    ELSE LET result == request(outcome) IN
         IF result.thrown THEN Thrown
         ELSE IF ~ssoGoogleDataSchema(result.data) THEN Failure
         ELSE LET accessToken == FieldToOpt(result.data.access)
                  refreshToken == FieldToOpt(result.data.refresh)
              IN  IF ~TruthyStr(accessToken) \/ ~TruthyStr(refreshToken) THEN Failure
                  ELSE Success(accessToken, refreshToken)

\* ssoGoogle over the platform fetch, everything inside try/catch
ssoGoogle_fetch(opts, outcome) ==
    IF ~ssoGoogleOptionsSchema(opts) THEN Failure
    ELSE IF outcome.kind # "response" THEN Failure
    ELSE IF ~ResponseOk(outcome.status) THEN Failure
    ELSE IF outcome.body.json \in {"invalid", "empty"} THEN Failure
    ELSE IF outcome.body.json # "object" \/ outcome.body.code # Some(1) THEN Failure
    ELSE IF ~ssoGoogleDataSchema(outcome.body) THEN Failure
    ELSE LET accessToken == FieldToOpt(outcome.body.access)
             refreshToken == FieldToOpt(outcome.body.refresh)
         IN  IF ~TruthyStr(accessToken) \/ ~TruthyStr(refreshToken) THEN Failure
             ELSE Success(accessToken, refreshToken)

\* refreshToken over the fetch client
refreshToken(opts, outcome) ==
    IF ~refreshTokenOptionsSchema(opts) THEN Failure
    ELSE IF ~TruthyStr(opts.token) THEN Failure
    ELSE LET result == request(outcome) IN
         IF result.thrown THEN Thrown
         ELSE IF ~refreshTokenDataSchema(result.data) THEN Failure
         ELSE Success(FieldToOpt(result.data.access), FieldToOpt(result.data.refresh))

\* refreshToken over the platform fetch, everything inside try/catch
refreshToken_fetch(opts, outcome) ==
    IF ~refreshTokenOptionsSchema(opts) THEN Failure
    ELSE IF ~TruthyStr(opts.token) THEN Failure
    ELSE IF outcome.kind # "response" THEN Failure
    ELSE IF ~ResponseOk(outcome.status) THEN Failure
    ELSE IF outcome.body.json \in {"invalid", "empty"} THEN Failure
    ELSE IF ~refreshTokenDataSchema(outcome.body) THEN Failure
    ELSE Success(FieldToOpt(outcome.body.access), FieldToOpt(outcome.body.refresh))

\* the { success, accessToken, refreshToken, expiresAt } wrapper result
WrapResult(result) ==
    IF result.thrown THEN Failure
    ELSE IF result.success /\ result.hasData
    THEN [Success(result.access_token, result.refresh_token) EXCEPT
             !.expiresAt = IF TruthyStr(result.access_token)
                           THEN LET e == getJwtExpiration(Val(result.access_token))
                                IN  IF TruthyNum(e) THEN e ELSE None
                           ELSE None]
    ELSE Failure

authenticateWithBase(opts, outcome) == WrapResult(ssoGoogle(opts, outcome))

refreshBaseToken(opts, outcome) == WrapResult(refreshToken(opts, outcome))

(***************************************************************************)
(* Inputs of the exchange / refresh services.                              *)
(***************************************************************************)
RefR == <<"r">>
RefQ == <<"q">>

Statuses == {200, 204, 401, 500}

XBodies ==
    {NoBody(j) : j \in {"invalid", "empty", "nonobject"}}
    \cup {ObjectBody(c, a, r) :
            c \in Opt({0, 1}),
            a \in {AbsentField, NumberField, StringField(<<>>), StringField(TokB)},
            r \in {AbsentField, NumberField, StringField(<<>>), StringField(RefR)}}

XOutcomes == {NetworkError, TimedOut} \cup {HttpResponse(st, b) : st \in Statuses, b \in XBodies}

XOptions == {[emailValid |-> TRUE, token |-> Some(<<"g">>)],
             [emailValid |-> FALSE, token |-> Some(<<"g">>)],
             [emailValid |-> TRUE, token |-> Some(<<>>)],
             [emailValid |-> TRUE, token |-> None]}

XFns == {"ssoGoogle", "ssoGoogle_fetch", "refreshToken", "refreshToken_fetch",
         "authenticateWithBase", "refreshBaseToken"}

NoCall == [done |-> FALSE, r |-> Failure]

ExchangeIdle ==
    /\ xFn = "none"
    /\ xOpts = [emailValid |-> FALSE, token |-> None]
    /\ xOutcome = NetworkError
    /\ xRes = NoCall

InitExchange ==
    /\ now = 0
    /\ ExtIdle
    /\ AuxIdle
    /\ UtilIdle
    /\ MainIdle
    /\ xFn \in XFns
    /\ xOpts \in XOptions
    /\ xOutcome \in XOutcomes
    \* the platform fetch has no timer: it settles with a response or an error
    /\ (xFn \in {"ssoGoogle_fetch", "refreshToken_fetch"}) => xOutcome # TimedOut
    /\ xRes = NoCall

Settle(r) ==
    /\ ~xRes.done
    /\ xRes' = [done |-> TRUE, r |-> r]
    /\ UNCHANGED <<now, extVars, auxVars, utilVars, xFn, xOpts, xOutcome, mainVars>>

CallSsoGoogle == xFn = "ssoGoogle" /\ Settle(ssoGoogle(xOpts, xOutcome))
CallSsoGoogleFetch == xFn = "ssoGoogle_fetch" /\ Settle(ssoGoogle_fetch(xOpts, xOutcome))
CallRefreshToken == xFn = "refreshToken" /\ Settle(refreshToken(xOpts, xOutcome))
CallRefreshTokenFetch == xFn = "refreshToken_fetch" /\ Settle(refreshToken_fetch(xOpts, xOutcome))
CallAuthenticateWithBase ==
    xFn = "authenticateWithBase" /\ Settle(authenticateWithBase(xOpts, xOutcome))
CallRefreshBaseToken == xFn = "refreshBaseToken" /\ Settle(refreshBaseToken(xOpts, xOutcome))

NextExchange ==
    \/ CallSsoGoogle
    \/ CallSsoGoogleFetch
    \/ CallRefreshToken
    \/ CallRefreshTokenFetch
    \/ CallAuthenticateWithBase
    \/ CallRefreshBaseToken

SpecExchange == InitExchange /\ [][NextExchange]_vars

\* C3: an exchange or refresh call whose HTTP response is non-2xx never
\* yields a result with success = true, whatever the body carries.
C3_Non2xxNeverSuccess ==
    (xRes.done /\ xOutcome.kind = "response"
        /\ ~(xOutcome.status \in 200..299))
        => ~xRes.r.success

C3_Witness ==
    /\ xRes.done /\ xFn = "ssoGoogle"
    /\ xOpts = [emailValid |-> TRUE, token |-> Some(<<"g">>)]
    /\ xOutcome = HttpResponse(500, ObjectBody(Some(1), StringField(TokB), StringField(RefR)))
    /\ xRes.r.thrown

\* C6: whenever ssoGoogle or refreshToken returns success = true the data
\* holds a non-empty access_token and a non-empty refresh_token; a 2xx
\* response lacking either token yields success = false.
C6_SuccessCarriesBothTokens ==
    (xRes.done /\ xFn \in {"ssoGoogle", "ssoGoogle_fetch", "refreshToken", "refreshToken_fetch"}
        /\ xRes.r.success)
        => (TruthyStr(xRes.r.access_token) /\ TruthyStr(xRes.r.refresh_token))

(***************************************************************************)
(* Inputs of the jwt utilities.                                            *)
(***************************************************************************)
UtilAlphabet == {Dot, "h", "n", "o", "t", "z", "B"}

RECURSIVE StringsUpTo(_, _)
StringsUpTo(A, n) ==
    IF n = 0 THEN {<<>>}
    ELSE LET shorter == StringsUpTo(A, n - 1)
         IN  shorter \cup {Append(s, c) : s \in {x \in shorter : Len(x) = n - 1}, c \in A}

UtilTokens == StringsUpTo(UtilAlphabet, MaxTokenLen)

NowValues == {0, 299999, 300000, 300001, 600000}
ExpiryValues == {0, 300000, 599999, 600000, 600001, 900000}

UtilFns == {"isTokenExpired", "isExpirationExpired", "isBaseTokenExpired",
            "shouldRefreshBaseToken"}

InitUtil ==
    /\ now \in NowValues
    /\ ExtIdle
    /\ AuxIdle
    /\ ExchangeIdle
    /\ MainIdle
    /\ uRes = NoResult
    /\ uFn \in UtilFns
    /\ CASE uFn = "isTokenExpired" ->
              uToken \in {Some(s) : s \in UtilTokens} /\ uExpiresAt = None
         [] uFn \in {"isExpirationExpired", "isBaseTokenExpired"} ->
              uToken = None /\ uExpiresAt \in Opt(ExpiryValues)
         [] uFn = "shouldRefreshBaseToken" ->
              /\ uToken \in Opt({<<>>, TokOpaque, TokA, TokB, TokC, <<Dot, "z", Dot>>})
              /\ uExpiresAt \in Opt(ExpiryValues)

EvalIsTokenExpired ==
    /\ uFn = "isTokenExpired" /\ ~uRes.done
    /\ uRes' = [done |-> TRUE,
                expiration |-> getJwtExpiration(Val(uToken)),
                expired |-> isTokenExpired(Val(uToken), now)]
    /\ UNCHANGED <<now, extVars, auxVars, uFn, uToken, uExpiresAt, xVars, mainVars>>

EvalIsExpirationExpired ==
    /\ uFn = "isExpirationExpired" /\ ~uRes.done
    /\ uRes' = [done |-> TRUE, expiration |-> uExpiresAt,
                expired |-> isExpirationExpired(uExpiresAt, now)]
    /\ UNCHANGED <<now, extVars, auxVars, uFn, uToken, uExpiresAt, xVars, mainVars>>

EvalIsBaseTokenExpired ==
    /\ uFn = "isBaseTokenExpired" /\ ~uRes.done
    /\ uRes' = [done |-> TRUE, expiration |-> uExpiresAt,
                expired |-> isBaseTokenExpired(uExpiresAt, now)]
    /\ UNCHANGED <<now, extVars, auxVars, uFn, uToken, uExpiresAt, xVars, mainVars>>

EvalShouldRefreshBaseToken ==
    /\ uFn = "shouldRefreshBaseToken" /\ ~uRes.done
    /\ uRes' = [done |-> TRUE,
                expiration |-> IF uToken = None THEN None
                               ELSE getJwtExpiration(Val(uToken)),
                expired |-> shouldRefreshBaseToken(uToken, uExpiresAt, now)]
    /\ UNCHANGED <<now, extVars, auxVars, uFn, uToken, uExpiresAt, xVars, mainVars>>

NextUtil ==
    \/ EvalIsTokenExpired
    \/ EvalIsExpirationExpired
    \/ EvalIsBaseTokenExpired
    \/ EvalShouldRefreshBaseToken

SpecUtil == InitUtil /\ [][NextUtil]_vars

(***************************************************************************)
(* What the claims call a decodable credential, stated on the string       *)
(* itself: exactly two dots, and the text between them decodes to a JSON   *)
(* object with a numeric exp.                                              *)
(***************************************************************************)
DotPositions(s) == {i \in 1..Len(s) : s[i] = Dot}

MiddleSegment(s) ==
    LET i == CHOOSE p \in DotPositions(s) : \A q \in DotPositions(s) : p <= q
        j == CHOOSE p \in DotPositions(s) : \A q \in DotPositions(s) : q <= p
    IN  SubSeq(s, i + 1, j - 1)

HasNumericExpiryClaim(s) ==
    /\ Cardinality(DotPositions(s)) = 2
    /\ LET p == DecodePayload(MiddleSegment(s))
       IN  p.kind = "object" /\ p.expType = "number"

ExpiryClaimMs(s) == DecodePayload(MiddleSegment(s)).exp * 1000

\* A stored credential is fresh at time t: its expiry decodes and lies more
\* than 5 minutes after t, and so does the expiry stored beside it, if any.
CredentialFresh(accessToken, expiresAt, t) ==
    /\ accessToken # None
    /\ HasNumericExpiryClaim(Val(accessToken))
    /\ ExpiryClaimMs(Val(accessToken)) - t > 300000
    /\ (expiresAt = None \/ Val(expiresAt) - t > 300000)

\* C7: every string that is not three dot-separated segments with a numeric
\* expiry claim in the second one gets null from getJwtExpiration and true
\* (needs refresh) from isTokenExpired.
C7_UndecodableNeedsRefresh ==
    (uRes.done /\ uFn = "isTokenExpired" /\ ~HasNumericExpiryClaim(Val(uToken)))
        => (uRes.expiration = None /\ uRes.expired)

C7_Witness ==
    /\ uRes.done /\ uFn = "isTokenExpired"
    /\ Val(uToken) = <<"h", Dot, "B">>
    /\ now = 0
    /\ uRes.expired

\* C8: isExpirationExpired(e) and isTokenExpired(token with expiry e) are true
\* exactly when e - now is at most 300000 ms.
C8_FiveMinuteWindow ==
    /\ (uRes.done /\ uFn = "isExpirationExpired" /\ uExpiresAt # None)
          => (uRes.expired <=> (Val(uExpiresAt) - now <= 300000))
    /\ (uRes.done /\ uFn = "isTokenExpired" /\ HasNumericExpiryClaim(Val(uToken)))
          => (uRes.expired <=> (ExpiryClaimMs(Val(uToken)) - now <= 300000))

C8_Witness ==
    /\ uRes.done /\ uFn = "isTokenExpired"
    /\ HasNumericExpiryClaim(Val(uToken))
    /\ ExpiryClaimMs(Val(uToken)) - now = 300000
    /\ uRes.expired

C8_WitnessFresh ==
    /\ uRes.done /\ uFn = "isExpirationExpired" /\ uExpiresAt # None
    /\ Val(uExpiresAt) - now = 300001
    /\ ~uRes.expired

\* C9: shouldRefreshBaseToken is true whenever the access token cannot be
\* decoded to an expiry (an empty or absent token included) or the time is
\* within 5 minutes of the decoded or of the supplied expiry, and false
\* otherwise.
C9_ShouldRefreshFailSafe ==
    (uRes.done /\ uFn = "shouldRefreshBaseToken")
        => (uRes.expired <=>
               \/ uToken = None
               \/ ~HasNumericExpiryClaim(Val(uToken))
               \/ ExpiryClaimMs(Val(uToken)) - now <= 300000
               \/ (uExpiresAt # None /\ Val(uExpiresAt) - now <= 300000))

(***************************************************************************)
(* The running system: a clock, the jwt callback of auth.ts (tokens in the *)
(* session token) and ensureBaseAuth / getTimeoffList (tokens in the       *)
(* request context).                                                       *)
(***************************************************************************)
TickMs == 150000
MaxTicks == 4

GoogleTok == <<"g">>
Email == <<"e">>

Users == {[id |-> Some(<<"u">>), email |-> Some(Email)],
          [id |-> Some(<<"u">>), email |-> None]}
Accounts == {[access_token |-> Some(GoogleTok), refresh_token |-> Some(<<"k">>)],
             [access_token |-> None, refresh_token |-> None]}

MainBodies ==
    {ObjectBody(Some(1), StringField(a), StringField(r)) :
        a \in {TokA, TokB, TokC, TokOpaque}, r \in {RefR, RefQ}}
    \cup {ObjectBody(Some(1), StringField(TokC), AbsentField),
          ObjectBody(Some(1), AbsentField, StringField(RefQ)),
          ObjectBody(Some(0), AbsentField, AbsentField),
          NoBody("nonobject")}

MainOutcomes ==
    {NetworkError, TimedOut}
    \cup {HttpResponse(200, b) : b \in MainBodies}
    \cup {HttpResponse(500, ObjectBody(Some(1), StringField(TokC), StringField(RefQ))),
          HttpResponse(401, ObjectBody(Some(0), AbsentField, AbsentField))}

InitMain ==
    /\ now = 0
    /\ ExtIdle
    /\ AuxIdle
    /\ UtilIdle
    /\ ExchangeIdle
    /\ variant \in {"session", "context"}
    /\ JwtIdle
    /\ ReqIdle

Tick ==
    /\ variant \in {"session", "context"}
    /\ now + TickMs <= MaxTicks * TickMs
    /\ now' = now + TickMs
    /\ UNCHANGED <<utilVars, xVars, mainVars, auxVars, extVars>>

(***************************************************************************)
(* auth.ts: callbacks.jwt                                                  *)
(***************************************************************************)
\* lines 104-108: the freshness check of the jwt callback
jwtShouldRefresh_Always(t, at) == TRUE

jwtShouldRefresh(t, at) ==
    \/ isTokenExpired(Val(t.baseAccessToken), at)
    \/ (TruthyNum(t.baseExpiresAt) /\ isExpirationExpired(t.baseExpiresAt, at))

\* lines 97-150 up to the await: either the refresh call is issued, or the
\* callback returns the token, which becomes the session.
JwtRefreshStep(t, h) ==
    IF /\ TruthyStr(t.baseAccessToken) /\ TruthyStr(t.baseRefreshToken)
       /\ jwtShouldRefresh(t, now)
    THEN /\ jwtPc' = "refresh"
         /\ tok' = t
         /\ jwtHist' = [h EXCEPT !.refresh = "issued",
                                  !.freshAtIssue =
                                     CredentialFresh(t.baseAccessToken, t.baseExpiresAt, now)]
         /\ UNCHANGED cookie
    ELSE /\ jwtPc' = "idle"
         /\ tok' = t
         /\ cookie' = Some(t)
         /\ jwtHist' = [h EXCEPT !.issued = TRUE]

\* lines 62-78: a successful exchange stored in the token
StoreSso(t, r) ==
    LET t1 == IF TruthyStr(r.access_token)
              THEN [t EXCEPT !.baseAccessToken = r.access_token] ELSE t
        t2 == IF TruthyStr(r.refresh_token)
              THEN [t1 EXCEPT !.baseRefreshToken = r.refresh_token] ELSE t1
        expiration == IF TruthyStr(r.access_token)
                      THEN getJwtExpiration(Val(r.access_token)) ELSE None
    IN  IF TruthyNum(expiration) THEN [t2 EXCEPT !.baseExpiresAt = expiration] ELSE t2

\* lines 118-132: a successful refresh stored in the token
StoreRefresh(t, r) ==
    LET expiration == IF TruthyStr(r.access_token)
                      THEN getJwtExpiration(Val(r.access_token)) ELSE None
        t1 == IF TruthyStr(r.access_token)
              THEN [t EXCEPT !.baseAccessToken = r.access_token,
                             !.baseExpiresAt = IF TruthyNum(expiration)
                                               THEN expiration ELSE @]
              ELSE t
    IN  IF TruthyStr(r.refresh_token)
        THEN [t1 EXCEPT !.baseRefreshToken = r.refresh_token] ELSE t1

\* only the access token is deleted
ClearBaseTokens_AccessOnly(t) == [t EXCEPT !.baseAccessToken = None]

\* lines 136-138 / 143-145
ClearBaseTokens(t) ==
    [t EXCEPT !.baseAccessToken = None, !.baseRefreshToken = None,
              !.baseExpiresAt = None]

\* the jwt callback invoked with account and user (initial sign-in)
JwtSignIn(user, account) ==
    /\ variant = "session" /\ jwtPc = "idle"
    /\ LET t == NewToken(user, account)
           h == [NoJwtHist EXCEPT !.signIn = TRUE]
       IN  IF TruthyStr(user.email) /\ TruthyStr(account.access_token)
           THEN /\ jwtPc' = "sso"
                /\ tok' = t
                /\ jwtHist' = h
                /\ UNCHANGED cookie
           ELSE JwtRefreshStep(t, h)
    /\ UNCHANGED <<now, extVars, auxVars, utilVars, xVars, variant, reqVars>>

\* ssoGoogle settles inside the sign-in callback; the throw of line 87 and
\* any error of ssoGoogle end in the catch of line 91, which only logs.
JwtSsoReturn(outcome, viaClient) ==
    /\ variant = "session" /\ jwtPc = "sso"
    /\ viaClient \/ outcome # TimedOut
    /\ LET opts == [emailValid |-> TRUE, token |-> tok.googleAccessToken]
           r == IF viaClient THEN ssoGoogle(opts, outcome)
                ELSE ssoGoogle_fetch(opts, outcome)
           ok == ~r.thrown /\ r.success /\ r.hasData
           t == IF ok THEN StoreSso(tok, r) ELSE tok
           h == [jwtHist EXCEPT !.sso = IF ok THEN "ok" ELSE "failed"]
       IN  JwtRefreshStep(t, h)
    /\ UNCHANGED <<now, extVars, auxVars, utilVars, xVars, variant, reqVars>>

\* the jwt callback invoked on a session read (no account)
JwtRead ==
    /\ variant = "session" /\ jwtPc = "idle"
    /\ cookie # None
    /\ JwtRefreshStep(Val(cookie), NoJwtHist)
    /\ UNCHANGED <<now, extVars, auxVars, utilVars, xVars, variant, reqVars>>

\* refreshToken settles inside the callback
JwtRefreshReturn(outcome) ==
    /\ variant = "session" /\ jwtPc = "refresh"
    /\ LET r == refreshToken([emailValid |-> TRUE, token |-> tok.baseRefreshToken], outcome)
           ok == ~r.thrown /\ r.success /\ r.hasData
           t == IF ok THEN StoreRefresh(tok, r) ELSE ClearBaseTokens(tok)
       IN  /\ tok' = t
           /\ cookie' = Some(t)
           /\ jwtPc' = "idle"
           /\ jwtHist' = [jwtHist EXCEPT !.refresh = IF ok THEN "ok" ELSE "failed",
                                         !.respAccess = r.access_token,
                                         !.respRefresh = r.refresh_token,
                                         !.issued = TRUE]
    /\ UNCHANGED <<now, extVars, auxVars, utilVars, xVars, variant, reqVars>>

NextJwt ==
    \/ \E user \in Users, account \in Accounts : JwtSignIn(user, account)
    \/ \E outcome \in MainOutcomes, viaClient \in BOOLEAN : JwtSsoReturn(outcome, viaClient)
    \/ JwtRead
    \/ \E outcome \in MainOutcomes : JwtRefreshReturn(outcome)

(***************************************************************************)
(* lib/base-auth: the request context, ensureBaseAuth,                     *)
(* getBaseAccessTokenFromContext, and getTimeoffList.                      *)
(***************************************************************************)
Sessions == {None,
             Some([email |-> None, googleAccessToken |-> Some(GoogleTok)]),
             Some([email |-> Some(Email), googleAccessToken |-> None]),
             Some([email |-> Some(Email), googleAccessToken |-> Some(GoogleTok)])}

OptionTokens == {None, Some(TokB)}

\* setBaseTokens
setBaseTokens(r) ==
    Some([accessToken |-> r.access_token, refreshToken |-> r.refresh_token,
          expiresAt |-> r.expiresAt])

\* getBaseTokens()?.accessToken and the like
CtxField(f) == IF ctx = None THEN None ELSE Val(ctx)[f]

\* an incoming request: its own, empty, token store
RequestBegin(sess) ==
    /\ variant = "context" /\ reqPc = "idle"
    /\ session' = sess
    /\ ctx' = None
    /\ call' = NoCallInfo
    /\ ensHist' = NoEnsHist
    /\ listHist' = NoListHist
    /\ ctxFresh' = FALSE
    /\ UNCHANGED <<now, extVars, auxVars, utilVars, xVars, variant, jwtVars, reqPc>>

\* getTimeoffList lines 333-340 and on: with the token getBaseAccessTokenFromContext
\* gave (none when it threw), either fail with "Access token is not provided"
\* or send the list request.
ListStep(optToken, sessionAccessToken, viaEnsure) ==
    LET accessTokenValue == IF TruthyStr(optToken) THEN optToken ELSE sessionAccessToken
    IN  IF ~TruthyStr(accessTokenValue)
        THEN /\ reqPc' = "idle"
             /\ listHist' = [NoListHist EXCEPT !.result = "missing_token"]
        ELSE /\ reqPc' = "list"
             /\ listHist' = [sent |-> TRUE, token |-> accessTokenValue,
                             freshAtSend |-> CredentialFresh(accessTokenValue, None, now),
                             viaEnsure |-> viaEnsure, result |-> "none"]

\* ensureBaseAuth ends: it returns a token or throws the redirect.  Called
\* from the layout that is the end; called from getTimeoffList (through
\* getBaseAccessTokenFromContext, which re-throws the redirect) the catch of
\* getTimeoffList turns the redirect into "no token" and the list step runs.
EnsureEnds(c, h, outcome, token) ==
    /\ ensHist' = [h EXCEPT !.outcome = outcome, !.returned = token]
    /\ IF c.caller = "timeoff"
       THEN ListStep(c.optToken, token, outcome = "returned")
       ELSE reqPc' = "idle" /\ listHist' = NoListHist

EnsureNeedsRefresh_Always(accessToken, expiresAt, at) == TRUE

\* ensure.ts line 63
EnsureNeedsRefresh(accessToken, expiresAt, at) ==
    shouldRefreshBaseToken(accessToken, expiresAt, at)

\* ensureBaseAuth up to its first await of a downstream call (lines 27-121)
EnsureStart(c) ==
    IF session = None \/ ~TruthyStr(Val(session).email)
    THEN EnsureEnds(c, NoEnsHist, "redirect_sign_in", None) /\ UNCHANGED ctx
    ELSE IF ~TruthyStr(Val(session).googleAccessToken)
    THEN EnsureEnds(c, NoEnsHist, "redirect_missing_google_token", None) /\ UNCHANGED ctx
    ELSE IF TruthyStr(CtxField("accessToken")) /\ TruthyStr(CtxField("refreshToken"))
    THEN IF EnsureNeedsRefresh(CtxField("accessToken"), CtxField("expiresAt"), now)
         THEN /\ reqPc' = "refresh"
              /\ listHist' = NoListHist
              /\ ensHist' = [NoEnsHist EXCEPT
                                !.nRefresh = 1, !.refresh = "issued",
                                !.freshAtIssue =
                                   CredentialFresh(CtxField("accessToken"),
                                                   CtxField("expiresAt"), now)]
              /\ UNCHANGED ctx
         ELSE EnsureEnds(c, NoEnsHist, "returned", CtxField("accessToken")) /\ UNCHANGED ctx
    ELSE /\ reqPc' = "exchange"
         /\ listHist' = NoListHist
         /\ ensHist' = [NoEnsHist EXCEPT !.nExchange = 1]
         /\ UNCHANGED ctx

\* the admin layout awaits ensureBaseAuth()
EnsureBaseAuthCall ==
    /\ variant = "context" /\ reqPc = "idle"
    /\ call' = [caller |-> "layout", optToken |-> None]
    /\ EnsureStart([caller |-> "layout", optToken |-> None])
    /\ UNCHANGED <<now, extVars, auxVars, utilVars, xVars, variant, jwtVars, session, ctxFresh>>

RefreshFailed_Retry(h) ==
    /\ reqPc' = "refresh"
    /\ ensHist' = [h EXCEPT !.nRefresh = IF @ < 3 THEN @ + 1 ELSE @]
    /\ UNCHANGED <<ctx, listHist, ctxFresh>>

\* lines 92-121: a failed refresh is logged and control falls through to the
\* one authenticateWithBase call of the invocation
RefreshFailed(h) ==
    /\ reqPc' = "exchange"
    /\ ensHist' = [h EXCEPT !.nExchange = @ + 1]
    /\ UNCHANGED <<ctx, listHist, ctxFresh>>

\* refreshBaseToken settles inside ensureBaseAuth (lines 77-98)
EnsureRefreshReturn(outcome) ==
    /\ variant = "context" /\ reqPc = "refresh"
    /\ LET r == refreshBaseToken([emailValid |-> TRUE, token |-> CtxField("refreshToken")],
                                 outcome)
           h == [ensHist EXCEPT !.refresh = IF r.success THEN "ok" ELSE "failed",
                                !.respAccess = r.access_token,
                                !.respRefresh = r.refresh_token]
       IN  IF r.success /\ TruthyStr(r.access_token)
           THEN /\ ctx' = setBaseTokens(r)
                /\ ctxFresh' = CredentialFresh(r.access_token, r.expiresAt, now)
                /\ EnsureEnds(call, h, "returned", r.access_token)
           ELSE RefreshFailed(h)
    /\ UNCHANGED <<now, extVars, auxVars, utilVars, xVars, variant, jwtVars, session, call>>

\* authenticateWithBase settles inside ensureBaseAuth (lines 118-145)
EnsureExchangeReturn(outcome) ==
    /\ variant = "context" /\ reqPc = "exchange"
    /\ LET r == authenticateWithBase(
                    [emailValid |-> TRUE, token |-> Val(session).googleAccessToken], outcome)
       IN  IF ~r.success \/ ~TruthyStr(r.access_token)
           THEN /\ EnsureEnds(call, ensHist, "redirect_base_access_denied", None)
                /\ UNCHANGED <<ctx, ctxFresh>>
           ELSE /\ ctx' = setBaseTokens(r)
                /\ ctxFresh' = CredentialFresh(r.access_token, r.expiresAt, now)
                /\ EnsureEnds(call, ensHist, "returned", r.access_token)
    /\ UNCHANGED <<now, extVars, auxVars, utilVars, xVars, variant, jwtVars, session, call>>

\* a page or route awaits getTimeoffList(options): getBaseAccessTokenFromContext
\* hands out the stored access token when there is one, and runs
\* ensureBaseAuth otherwise.
GetTimeoffListCall(optToken) ==
    /\ variant = "context" /\ reqPc = "idle"
    /\ call' = [caller |-> "timeoff", optToken |-> optToken]
    /\ IF TruthyStr(CtxField("accessToken"))
       THEN /\ ListStep(optToken, CtxField("accessToken"), FALSE)
            /\ ensHist' = NoEnsHist
            /\ UNCHANGED ctx
       ELSE EnsureStart([caller |-> "timeoff", optToken |-> optToken])
    /\ UNCHANGED <<now, extVars, auxVars, utilVars, xVars, variant, jwtVars, session, ctxFresh>>

\* the list request settles
ListReturn(outcome) ==
    /\ variant = "context" /\ reqPc = "list"
    /\ LET result == request(outcome) IN
       listHist' = [listHist EXCEPT
                       !.result = IF result.thrown THEN "thrown"
                                  ELSE IF result.data.json = "object" THEN "success"
                                  ELSE "invalid_response"]
    /\ reqPc' = "idle"
    /\ UNCHANGED <<now, extVars, auxVars, utilVars, xVars, variant, jwtVars, session, ctx, call, ensHist,
                   ctxFresh>>

NextReq ==
    \/ \E sess \in Sessions : RequestBegin(sess)
    \/ EnsureBaseAuthCall
    \/ \E outcome \in MainOutcomes : EnsureRefreshReturn(outcome)
    \/ \E outcome \in MainOutcomes : EnsureExchangeReturn(outcome)
    \/ \E optToken \in OptionTokens : GetTimeoffListCall(optToken)
    \/ \E outcome \in MainOutcomes : ListReturn(outcome)

Next == Tick \/ NextJwt \/ NextReq

Spec == InitMain /\ [][Next]_vars

\* C1: when the exchange fails during initial sign-in, the jwt callback
\* produces no session token (the sign-in is rejected).
C1_FailedExchangeRejectsSignIn ==
    (jwtPc = "idle" /\ jwtHist.signIn /\ jwtHist.sso = "failed")
        => ~jwtHist.issued

\* every downstream call of ensureBaseAuth settles: with a response, an error
\* or the timeout of the fetch client
FairSpec ==
    /\ Spec
    /\ WF_vars(\E outcome \in MainOutcomes : EnsureRefreshReturn(outcome))
    /\ WF_vars(\E outcome \in MainOutcomes : EnsureExchangeReturn(outcome))

\* C2: getTimeoffList never sends the list request with a credential that is
\* absent or needs refresh: the token it sends is fresh at that moment, or
\* was obtained by a refresh or exchange run first in the same call.  Stated
\* for the credential of the request context (no options.accessToken), and
\* leaving aside a credential that the downstream system issued stale.
C2_ListUsesFreshCredential ==
    (listHist.sent /\ call.optToken = None)
        => /\ TruthyStr(listHist.token)
           /\ \/ listHist.freshAtSend
              \/ (listHist.viaEnsure /\ ensHist.nRefresh + ensHist.nExchange >= 1)
              \/ ~ctxFresh

EnsureCallCounts ==
    /\ ensHist.nRefresh <= 1
    /\ ensHist.nExchange <= 1
    /\ (reqPc = "refresh" => (ensHist.nRefresh = 1 /\ ensHist.nExchange = 0))
    /\ (ensHist.refresh = "failed" => (ensHist.nRefresh = 1 /\ ensHist.nExchange = 1))
    /\ (ensHist.outcome # "none" =>
           \/ (ensHist.outcome = "returned" /\ TruthyStr(ensHist.returned))
           \/ ensHist.outcome \in {"redirect_sign_in", "redirect_missing_google_token",
                                   "redirect_base_access_denied"})

C5_RefreshRotatesBoth ==
    /\ (variant = "session" /\ jwtPc = "idle" /\ jwtHist.refresh = "ok")
          => /\ TruthyStr(jwtHist.respAccess) /\ TruthyStr(jwtHist.respRefresh)
             /\ cookie # None
             /\ Val(cookie).baseAccessToken = jwtHist.respAccess
             /\ Val(cookie).baseRefreshToken = jwtHist.respRefresh
    /\ (variant = "context" /\ ensHist.refresh = "ok" /\ ensHist.outcome # "none")
          => /\ TruthyStr(ensHist.respAccess) /\ TruthyStr(ensHist.respRefresh)
             /\ CtxField("accessToken") = ensHist.respAccess
             /\ CtxField("refreshToken") = ensHist.respRefresh

\* C10: a refresh call is issued only inside a jwt callback or an
\* ensureBaseAuth invocation, and only when the stored credential was not
\* fresh at that moment.
C10_RefreshOnlyLazily ==
    /\ (jwtHist.refresh # "none" => ~jwtHist.freshAtIssue)
    /\ (ensHist.refresh # "none" => ~ensHist.freshAtIssue)
    /\ (jwtHist.refresh = "issued" <=> jwtPc = "refresh")
    /\ (ensHist.refresh = "issued" <=> reqPc = "refresh")

C10_Witness ==
    /\ variant = "session" /\ jwtPc = "refresh"
    /\ tok.baseAccessToken = Some(TokB)
    /\ ~jwtHist.signIn
    /\ now = 2 * TickMs

C10_WitnessContext ==
    /\ variant = "context" /\ reqPc = "refresh"
    /\ CtxField("accessToken") = Some(TokC)

(***************************************************************************)
(* One downstream HTTP call: FetchClient.request races fetch against a     *)
(* timer (executeFetch); the older services await the platform fetch       *)
(* directly.                                                               *)
(***************************************************************************)
ElapseMs == 30000
MaxElapsedMs == 120000

\* this.config.defaultTimeout || 60000
defaultTimeout == 60000

InitFetch ==
    /\ now = 0
    /\ ExtIdle
    /\ UtilIdle
    /\ ExchangeIdle
    /\ MainIdle
    /\ fKind \in {"client", "platform"}
    /\ fAnswer \in {NoAnswer} \cup {[at |-> t, kind |-> k] :
                                     t \in {0, 30000, 59999, 60001, 90000},
                                     k \in {"response", "network"}}
    /\ fPc = "idle" /\ fElapsed = 0 /\ fTimer = "none" /\ fDelivered = FALSE
    /\ fHist = NoFetchHist
    /\ StoreIdle
    /\ HookIdle

\* handleRequestError: the FetchError type thrown for what the race rejected with
handleRequestError(error) ==
    IF error = "timeout" THEN "TIMEOUT" ELSE "NETWORK"

\* the awaited promise settles; a promise settles once, later events are ignored
FetchSettle(outcome) ==
    IF fPc = "pending"
    THEN /\ fPc' = "settled"
         /\ fHist' = [fHist EXCEPT !.settles = @ + 1, !.outcome = outcome]
    ELSE UNCHANGED <<fPc, fHist>>

\* executeFetch (client): fetch(url, options) raced against createTimeoutPromise;
\* await fetch(url, ...) (platform): no timer.
executeFetch ==
    /\ fPc = "idle"
    /\ fPc' = "pending"
    /\ fHist' = [fHist EXCEPT !.attempts = @ + 1]
    /\ fTimer' = IF fKind = "client" THEN "armed" ELSE "none"
    /\ UNCHANGED <<now, extVars, utilVars, xVars, mainVars, storeVars, hookVars, fKind, fAnswer, fElapsed, fDelivered>>

AnswerDue == fPc # "idle" /\ fAnswer.kind # "never" /\ ~fDelivered /\ fAnswer.at <= fElapsed
TimerDue == fTimer = "armed" /\ defaultTimeout <= fElapsed

\* time passes, never past an event that is due
FetchElapse ==
    /\ fPc # "idle"
    /\ ~AnswerDue /\ ~TimerDue
    /\ fElapsed < MaxElapsedMs
    /\ LET upcoming == {fElapsed + ElapseMs}
                       \cup (IF fAnswer.kind # "never" /\ ~fDelivered
                             THEN {fAnswer.at} ELSE {})
                       \cup (IF fTimer = "armed" THEN {defaultTimeout} ELSE {})
       IN  fElapsed' = CHOOSE t \in upcoming : \A u \in upcoming : t <= u
    /\ UNCHANGED <<now, extVars, utilVars, xVars, mainVars, storeVars, hookVars, fKind, fAnswer, fPc, fTimer,
                   fDelivered, fHist>>

\* the downstream answers: fetch resolves with a Response or rejects
AnswerArrives ==
    /\ AnswerDue
    /\ fDelivered' = TRUE
    /\ FetchSettle(IF fAnswer.kind = "response" THEN "response"
                   ELSE IF fKind = "client" THEN handleRequestError("network")
                   ELSE "NETWORK")
    /\ UNCHANGED <<now, extVars, utilVars, xVars, mainVars, storeVars, hookVars, fKind, fAnswer, fElapsed, fTimer>>

\* createTimeoutPromise: setTimeout rejects with "Request timeout after ...ms"
createTimeoutPromise ==
    /\ TimerDue
    /\ fTimer' = "fired"
    /\ FetchSettle(handleRequestError("timeout"))
    /\ UNCHANGED <<now, extVars, utilVars, xVars, mainVars, storeVars, hookVars, fKind, fAnswer, fElapsed, fDelivered>>

NextFetch ==
    \/ executeFetch
    \/ FetchElapse
    \/ AnswerArrives
    \/ createTimeoutPromise

SpecFetch == InitFetch /\ [][NextFetch]_vars

\* time passes, and what is due happens
FairSpecFetch ==
    /\ SpecFetch
    /\ WF_vars(FetchElapse) /\ WF_vars(AnswerArrives) /\ WF_vars(createTimeoutPromise)

FetchOutcomeAsClaimed ==
    fPc = "settled" =>
        IF fAnswer.kind # "never" /\ fAnswer.at < defaultTimeout
        THEN fHist.outcome = (IF fAnswer.kind = "response" THEN "response" ELSE "NETWORK")
        ELSE fHist.outcome = "TIMEOUT"

\* C11: every downstream call makes one HTTP attempt and settles exactly once,
\* with the response outcome when the answer comes before the timeout and
\* with a TIMEOUT error otherwise; a call whose downstream never answers
\* still settles.
C11_SingleAttemptAlwaysSettles ==
    /\ [](fHist.attempts <= 1 /\ fHist.settles <= 1)
    /\ []FetchOutcomeAsClaimed
    /\ (fPc = "pending") ~> (fPc = "settled")

(***************************************************************************)
(* The redirect of ensureBaseAuth, as its callers see it.                  *)
(***************************************************************************)
\* C12: when the exchange fails while a timeoff read or an admin page is
\* served, the request ends with the redirect to
\* /sign-in?error=base_access_denied: getTimeoffList neither returns a result
\* nor sends the list request.
C12_RedirectPropagates ==
    (ensHist.outcome = "redirect_base_access_denied" /\ call.caller = "timeoff")
        => /\ ~listHist.sent
           /\ listHist.result = "none"

(***************************************************************************)
(* The two request-scoped token stores, driven by the same calls: the Map  *)
(* keyed by request id and the AsyncLocalStorage slot.  Time stands still  *)
(* here, so a stored token stays fresh.  The AsyncLocalStorage slot is     *)
(* taken to be shared by the whole async chain of a request (what the      *)
(* layout's comment says of enterWith), and to end with that chain.        *)
(***************************************************************************)
StoredBy(r, n) == [owner |-> r, accessToken |-> n, refreshToken |-> n]

\* Map-keyed store: tokenStore.set / tokenStore.get / tokenStore.delete
setBaseTokens_map(store, requestId, tokens) == [store EXCEPT ![requestId] = Some(tokens)]

getBaseTokens_map_AnyKey(store, requestId) ==
    LET others == {k \in DOMAIN store : k # requestId /\ store[k] # None}
    IN  IF others # {} THEN store[CHOOSE k \in others : TRUE] ELSE store[requestId]

getBaseTokens_map(store, requestId) == store[requestId]

clearBaseTokens_map(store, requestId) == [store EXCEPT ![requestId] = None]

\* AsyncLocalStorage store: tokenStore.enterWith / tokenStore.getStore; clear
\* has an empty body
setBaseTokens_als(store, chain, tokens) == [store EXCEPT ![chain] = Some(tokens)]

getBaseTokens_als(store, chain) == store[chain]

clearBaseTokens_als(store, chain) == store

InitStore ==
    /\ now = 0
    /\ ExtIdle
    /\ UtilIdle
    /\ ExchangeIdle
    /\ MainIdle
    /\ FetchIdle
    /\ StoreIdle
    /\ HookIdle

\* a request arrives
StoreRequestBegin(r) ==
    /\ rState[r] = "new"
    /\ rState' = [rState EXCEPT ![r] = "active"]
    /\ UNCHANGED <<now, extVars, utilVars, xVars, mainVars, fetchVars, hookVars, mapStore, alsStore, bPc, sHist>>

\* setBaseTokens called on behalf of request r
StoreSet(r) ==
    /\ rState[r] = "active"
    /\ mapStore' = setBaseTokens_map(mapStore, r, StoredBy(r, "s"))
    /\ alsStore' = setBaseTokens_als(alsStore, r, StoredBy(r, "s"))
    /\ UNCHANGED <<now, extVars, utilVars, xVars, mainVars, fetchVars, hookVars, rState, bPc, sHist>>

\* getBaseTokens called on behalf of request r
StoreGet(r) ==
    /\ rState[r] = "active"
    /\ sHist' = [sHist EXCEPT !.lastGet = [done |-> TRUE, req |-> r,
                                            map |-> getBaseTokens_map(mapStore, r),
                                            als |-> getBaseTokens_als(alsStore, r)]]
    /\ UNCHANGED <<now, extVars, utilVars, xVars, mainVars, fetchVars, hookVars, mapStore, alsStore, rState, bPc>>

\* clearBaseTokens called on behalf of request r
StoreClear(r) ==
    /\ rState[r] = "active"
    /\ mapStore' = clearBaseTokens_map(mapStore, r)
    /\ alsStore' = clearBaseTokens_als(alsStore, r)
    /\ UNCHANGED <<now, extVars, utilVars, xVars, mainVars, fetchVars, hookVars, rState, bPc, sHist>>

\* ensureBaseAuth in one rendering branch, up to its await (ensure.ts 53-121):
\* stored tokens are reused, otherwise the exchange is called
BranchCheck(r, b) ==
    /\ rState[r] = "active" /\ bPc[r][b] = "idle"
    /\ IF getBaseTokens_als(alsStore, r) # None
       THEN /\ bPc' = [bPc EXCEPT ![r][b] = "done"]
            /\ UNCHANGED sHist
       ELSE /\ bPc' = [bPc EXCEPT ![r][b] = "exchange"]
            /\ sHist' = [sHist EXCEPT !.exchanges[r] = @ + 1]
    /\ UNCHANGED <<now, extVars, utilVars, xVars, mainVars, fetchVars, hookVars, mapStore, alsStore, rState>>

\* authenticateWithBase settles in that branch (ensure.ts 118-145): tokens are
\* stored, or the branch redirects
BranchExchangeReturn(r, b, ok) ==
    /\ rState[r] = "active" /\ bPc[r][b] = "exchange"
    /\ bPc' = [bPc EXCEPT ![r][b] = "done"]
    /\ IF ok
       THEN /\ mapStore' = setBaseTokens_map(mapStore, r, StoredBy(r, b))
            /\ alsStore' = setBaseTokens_als(alsStore, r, StoredBy(r, b))
       ELSE UNCHANGED <<mapStore, alsStore>>
    /\ UNCHANGED <<now, extVars, utilVars, xVars, mainVars, fetchVars, hookVars, rState, sHist>>

\* the request has been served: its async chain ends and the slot with it;
\* nothing in the repository calls clearBaseTokens for it
StoreRequestEnd(r) ==
    /\ rState[r] = "active"
    /\ \A b \in Branches : bPc[r][b] # "exchange"
    /\ rState' = [rState EXCEPT ![r] = "finished"]
    /\ alsStore' = [alsStore EXCEPT ![r] = None]
    /\ UNCHANGED <<now, extVars, utilVars, xVars, mainVars, fetchVars, hookVars, mapStore, bPc, sHist>>

NextStore ==
    \/ \E r \in Requests : StoreRequestBegin(r)
    \/ \E r \in Requests : StoreSet(r)
    \/ \E r \in Requests : StoreGet(r)
    \/ \E r \in Requests : StoreClear(r)
    \/ \E r \in Requests, b \in Branches : BranchCheck(r, b)
    \/ \E r \in Requests, b \in Branches, ok \in BOOLEAN : BranchExchangeReturn(r, b, ok)
    \/ \E r \in Requests : StoreRequestEnd(r)

SpecStore == InitStore /\ [][NextStore]_vars

\* C13: within one request the exchange endpoint is called at most once
\* while the obtained token stays fresh, whatever branches run concurrently.
C13_OneExchangePerRequest ==
    \A r \in Requests : sHist.exchanges[r] <= 1

\* C14: getBaseTokens on behalf of one request never returns tokens stored on
\* behalf of another, in the Map store and in the AsyncLocalStorage store.
C14_NoCrossRequestTokens ==
    sHist.lastGet.done =>
        /\ sHist.lastGet.map # None => Val(sHist.lastGet.map).owner = sHist.lastGet.req
        /\ sHist.lastGet.als # None => Val(sHist.lastGet.als).owner = sHist.lastGet.req

C14_Witness ==
    /\ sHist.lastGet.done /\ sHist.lastGet.req = "A"
    /\ sHist.lastGet.map # None /\ sHist.lastGet.als # None
    /\ rState["B"] = "active" /\ mapStore["B"] # None /\ alsStore["B"] # None

\* C15: once a request has finished, no store holds its tokens.
C15_NothingKeptAfterRequest ==
    \A r \in Requests :
        rState[r] = "finished" => (mapStore[r] = None /\ alsStore[r] = None)

\* C16: for the calls made on behalf of one request, the Map store and the
\* AsyncLocalStorage slot return the same value from every getBaseTokens.
C16_StoresAgree ==
    sHist.lastGet.done => sHist.lastGet.map = sHist.lastGet.als

(***************************************************************************)
(* POST /api/webhook: the route, the dispatcher and the example handler.   *)
(***************************************************************************)
ObjectData(id, name) == [t |-> "object", id |-> id, name |-> name]
ObjectPayload(mt, d) == [json |-> "object", messageType |-> mt, data |-> d]

\* registerHandler("example", handleExample), and the handler under "custom"
handlers == {"example"} \cup (IF hHandler.does = "none" THEN {} ELSE {"custom"})

InitHook ==
    /\ now = 0
    /\ ExtIdle
    /\ UtilIdle
    /\ ExchangeIdle
    /\ MainIdle
    /\ FetchIdle
    /\ StoreIdle
    /\ hVariant \in {"route", "logged"}
    /\ hBody \in
         {[json |-> j, messageType |-> JAbsent, data |-> NoData] :
             j \in {"invalid", "null", "number", "array", "string"}}
         \cup {ObjectPayload(mt, d) :
                 mt \in {JAbsent, [t |-> "number", s |-> ""], JString(""),
                         JString("example"), JString("other"), JString("toString")},
                 d \in {NoData, [t |-> "number", id |-> JAbsent, name |-> JAbsent],
                        ObjectData(JString("123"), JString("Test")),
                        ObjectData(JString("7"), JString("Ann")),
                        ObjectData([t |-> "number", s |-> ""], JString("Test")),
                        ObjectData(JString("123"), JAbsent)}}
    /\ hRun = NoRun
    /\ hResp = NoResponse
    /\ hHandler = NoHandler

Rejected(text, arg) ==
    [success |-> FALSE, message |-> [text |-> text, arg |-> arg],
     data |-> NoProcessed, form |-> "typed"]

\* baseWebhookSchema.safeParse(body): an object with a non-empty string
\* messageType; the parsed data keeps the keys of the schema only
baseWebhookSchema(b) ==
    IF b.json = "object" /\ b.messageType.t = "string" /\ b.messageType.s # ""
    THEN [success |-> TRUE, data |-> ObjectPayload(b.messageType, NoData)]
    ELSE [success |-> FALSE, data |-> NoPayload]

\* examplePayloadSchema.safeParse(payload).success
examplePayloadSchema(payload) ==
    /\ payload.json = "object"
    /\ payload.messageType = JString("example")
    /\ payload.data.t = "object"
    /\ payload.data.id.t = "string"
    /\ payload.data.name.t = "string"

handleExample(payload) ==
    IF ~examplePayloadSchema(payload) THEN Rejected("Invalid payload: ", "zod")
    ELSE [success |-> TRUE,
          message |-> [text |-> "Example webhook processed successfully", arg |-> ""],
          data |-> [present |-> TRUE, processedId |-> payload.data.id.s,
                    processedName |-> payload.data.name.s],
          form |-> "typed"]

dispatchWebhook_AnyTag(payload) ==
    [result |-> Rejected("No handler registered for messageType: ", "unknown"),
     invoked |-> 0, thrown |-> FALSE]

\* dispatchWebhook: [result, invoked], invoked counting the handler calls
dispatchWebhook(payload) ==
    LET messageType == payload.messageType.s IN
    IF messageType \notin handlers
    THEN [result |-> Rejected("No handler registered for messageType: ", messageType),
          invoked |-> 0, thrown |-> FALSE]
    ELSE IF messageType = "example"
    THEN [result |-> handleExample(payload), invoked |-> 1, thrown |-> FALSE]
    \* try { return await handler(payload) } catch (error) { ... }
    ELSE [result |-> CASE hHandler.does = "returns" -> hHandler.value
                       [] hHandler.error = "Error" -> Rejected("handler error", "")
                       [] OTHER -> Rejected("Unknown error occurred", ""),
          invoked |-> 1, thrown |-> FALSE]

\* webhookResponseSchema.safeParse(result).success: an object whose message,
\* if present, is a string; the schema has no success key
webhookResponseSchema(result) == result.form \notin {"notObject", "messageNotString"}

HookRespond(status, result) ==
    /\ hResp' = [status |-> status, body |-> result]
    /\ hRun' = [hRun EXCEPT !.pc = "responded"]

\* const body = await request.json()
ParseBody ==
    /\ hRun.pc = "idle"
    /\ IF hBody.json = "invalid"
       THEN HookRespond(400, Rejected("Invalid JSON payload", ""))
       ELSE hRun' = [hRun EXCEPT !.pc = "parsed"] /\ UNCHANGED hResp
    /\ UNCHANGED <<now, extVars, utilVars, xVars, mainVars, fetchVars, storeVars, hVariant, hBody, hHandler>>

\* the logging handler reads body.messageType for its log line before the
\* payload is validated; on null that read throws a TypeError
LogBody ==
    /\ hRun.pc = "parsed" /\ hVariant = "logged"
    /\ IF hBody.json = "null"
       THEN HookRespond(500, Rejected("Cannot read properties of null", "messageType"))
       ELSE hRun' = [hRun EXCEPT !.pc = "logged"] /\ UNCHANGED hResp
    /\ UNCHANGED <<now, extVars, utilVars, xVars, mainVars, fetchVars, storeVars, hVariant, hBody, hHandler>>

\* baseWebhookSchema.safeParse(body) and the 400 for an invalid payload
ValidateBase ==
    /\ \/ hRun.pc = "parsed" /\ hVariant = "route"
       \/ hRun.pc = "logged" /\ hVariant = "logged"
    /\ LET validationResult == baseWebhookSchema(hBody) IN
       IF ~validationResult.success
       THEN HookRespond(400, Rejected("Invalid webhook payload: ", "zod"))
       ELSE /\ hRun' = [hRun EXCEPT !.pc = "validated", !.payload = validationResult.data]
            /\ UNCHANGED hResp
    /\ UNCHANGED <<now, extVars, utilVars, xVars, mainVars, fetchVars, storeVars, hVariant, hBody, hHandler>>

\* const result = await dispatchWebhook(validationResult.data)
Dispatch ==
    /\ hRun.pc = "validated"
    /\ LET d == dispatchWebhook(hRun.payload) IN
       hRun' = [hRun EXCEPT !.pc = "dispatched", !.result = d.result,
                            !.invoked = @ + d.invoked,
                            !.received = IF d.invoked = 1 THEN hRun.payload ELSE @,
                            !.thrown = d.thrown]
    /\ UNCHANGED <<now, extVars, utilVars, xVars, mainVars, fetchVars, storeVars, hVariant, hBody, hResp, hHandler>>

\* response validation and NextResponse.json(result, { status })
Respond ==
    /\ hRun.pc = "dispatched"
    /\ IF hRun.thrown
       THEN HookRespond(500, Rejected("Internal server error", ""))
       ELSE IF ~webhookResponseSchema(hRun.result)
       THEN HookRespond(500, Rejected("Internal error: Invalid handler response format", ""))
       ELSE HookRespond(IF hRun.result.success THEN 200 ELSE 400, hRun.result)
    /\ UNCHANGED <<now, extVars, utilVars, xVars, mainVars, fetchVars, storeVars, hVariant, hBody, hHandler>>

NextHook ==
    \/ ParseBody
    \/ LogBody
    \/ ValidateBase
    \/ Dispatch
    \/ Respond

SpecHook == InitHook /\ [][NextHook]_vars

HasMessageType(b) == b.json = "object" /\ b.messageType.t = "string" /\ b.messageType.s # ""

\* C17: a POST whose body has messageType "example" and data {id, name} is
\* answered 200 with the success message and processedId / processedName
\* echoing id and name; the handler receives the data field of the body.
C17_ExampleScenario ==
    (hRun.pc = "responded" /\ examplePayloadSchema(hBody))
        => /\ hResp.status = 200
           /\ hResp.body = [success |-> TRUE,
                            message |-> [text |-> "Example webhook processed successfully", arg |-> ""],
                            data |-> [present |-> TRUE,
                                      processedId |-> hBody.data.id.s,
                                      processedName |-> hBody.data.name.s],
                            form |-> "typed"]
           /\ hRun.received.data = hBody.data

\* C18: a non-empty tag without a registered handler makes dispatchWebhook
\* return success false with "No handler registered for messageType: <tag>",
\* and the route answers 400 with that body.
C18_UnregisteredTag ==
    (HasMessageType(hBody) /\ hBody.messageType.s \notin handlers)
        => /\ hRun.pc \in {"dispatched", "responded"}
              => hRun.result = Rejected("No handler registered for messageType: ",
                                        hBody.messageType.s)
           /\ hRun.pc = "responded"
              => (hResp.status = 400 /\ hResp.body = hRun.result)
           /\ hRun.invoked = 0

C18_Witness ==
    /\ hRun.pc = "responded"
    /\ hBody.messageType = JString("other")
    /\ hResp.status = 400
    /\ hResp.body.message.arg = "other"

\* C19: a JSON body without a non-empty string messageType is answered 400,
\* and no handler is invoked while that request is served.
C19_MissingTypeRejectedBeforeHandlers ==
    (hBody.json \notin {"invalid", "none"} /\ ~HasMessageType(hBody))
        => /\ hRun.invoked = 0
           /\ hRun.pc = "responded" => hResp.status = 400

\* C20: every payload error (invalid JSON, a JSON value that is not an
\* object, no valid messageType, an unregistered messageType, a payload the
\* handler rejects) is answered 400 with a message, never 500.
C20_PayloadErrorsAre400 ==
    (hRun.pc = "responded" /\ ~examplePayloadSchema(hBody))
        => /\ hResp.status = 400
           /\ hResp.body.message.text # ""

(***************************************************************************)
(* The dispatcher with a second registered handler of any behaviour.       *)
(***************************************************************************)
\* a value a handler can resolve to; truthy is the truthiness of .success
HandlerValue(truthy, form) ==
    [success |-> truthy, message |-> [text |-> "handled", arg |-> ""],
     data |-> NoProcessed, form |-> form]

\* what the handler registered under "custom" does when called
HandlerBehaviours ==
    {[does |-> "returns", value |-> HandlerValue(truthy, form), error |-> "none"] :
        truthy \in BOOLEAN,
        form \in {"typed", "successNotBoolean", "messageNotString"}}
    \cup {[does |-> "returns", value |-> HandlerValue(FALSE, "notObject"), error |-> "none"]}
    \cup {[does |-> d, value |-> NoHandlerResult, error |-> e] :
            d \in {"rejects", "throws"}, e \in {"Error", "other"}}

InitDispatch ==
    /\ now = 0
    /\ ExtIdle
    /\ UtilIdle
    /\ ExchangeIdle
    /\ MainIdle
    /\ FetchIdle
    /\ StoreIdle
    /\ hVariant \in {"route", "logged"}
    /\ hBody \in {[json |-> "null", messageType |-> JAbsent, data |-> NoData]}
                \cup {ObjectPayload(JString(g), d) :
                        g \in {"custom", "example", "other"},
                        d \in {NoData, ObjectData(JString("123"), JString("Test"))}}
    /\ hRun = NoRun
    /\ hResp = NoResponse
    /\ hHandler \in HandlerBehaviours

SpecDispatch == InitDispatch /\ [][NextHook]_vars

\* C21: dispatchWebhook never throws, whatever the registered handler does.
\* The route answers 200 exactly when a registered handler returned a
\* { success: true, message?, data? } result, 400 for a well-formed result
\* with success false, and 500 only for a result that breaks the response
\* contract or for an unexpected internal error.
C21_StatusFollowsHandlerResult ==
    /\ ~hRun.thrown
    /\ hRun.pc = "responded" =>
        /\ hResp.status = 200
             <=> /\ hRun.invoked = 1
                 /\ hRun.result.form = "typed"
                 /\ hRun.result.success
        /\ (hRun.invoked = 1 /\ hRun.result.form = "typed" /\ ~hRun.result.success)
             => hResp.status = 400
        /\ hResp.status = 500
             => \/ hRun.invoked = 1 /\ hRun.result.form # "typed"
                \/ hVariant = "logged" /\ hBody.json = "null"

(***************************************************************************)
(* env.ts: the configuration module, and the services that read            *)
(* process.env themselves.  A variable of the environment is "set" (a      *)
(* value its schema accepts), "notUrl" (a non-empty string that is not a   *)
(* URL), "empty" or "missing".                                             *)
(***************************************************************************)
MaxHandled == 2

RequiredVars == {"GOOGLE_CLIENT_ID", "GOOGLE_CLIENT_SECRET", "AUTH_SECRET", "BASE_DOMAIN"}

\* runtimeEnv with emptyStringAsUndefined: "" is deleted before validation
runtimeEnv(e) == [v \in RequiredVars |-> IF e[v] = "empty" THEN "missing" ELSE e[v]]

\* createEnv({ server, runtimeEnv, skipValidation, emptyStringAsUndefined }):
\* z.string().min(1) for the three secrets, z.string().url() for BASE_DOMAIN
createEnv(e, skipValidation) ==
    IF skipValidation THEN "loaded"
    ELSE IF \A v \in RequiredVars : runtimeEnv(e)[v] = "set" THEN "loaded" ELSE "throws"

\* !process.env.BASE_DOMAIN
DomainFalsy(e) == e["BASE_DOMAIN"] \in {"missing", "empty"}

InitEnv ==
    /\ now = 0
    /\ UtilIdle
    /\ ExchangeIdle
    /\ MainIdle
    /\ AuxIdle
    /\ mw = Off /\ hdr = Off /\ race = Off /\ api = Off /\ goog = Off
    /\ \E e \in [RequiredVars -> {"set", "empty", "missing"}], d \in {"set", "empty", "missing", "notUrl"},
          skip \in BOOLEAN :
          cfg = [pc |-> "boot", env |-> [e EXCEPT !["BASE_DOMAIN"] = d],
                 SKIP_ENV_VALIDATION |-> skip, handled |-> 0, firstUse |-> "none"]

\* the module env.ts is evaluated when the server starts
LoadEnv ==
    /\ cfg.pc = "boot"
    /\ cfg' = [cfg EXCEPT !.pc = IF createEnv(cfg.env, cfg.SKIP_ENV_VALIDATION) = "loaded"
                                 THEN "serving" ELSE "aborted"]
    /\ UNCHANGED notCfg

\* a request served by code that reads process.env.BASE_DOMAIN:
\* "BASE_DOMAIN environment variable is not set" is returned at that use
ServeWithDomain(service) ==
    /\ cfg.pc = "serving" /\ cfg.handled < MaxHandled
    /\ cfg' = [cfg EXCEPT !.handled = @ + 1,
                          !.firstUse = IF DomainFalsy(cfg.env) THEN service ELSE @]
    /\ UNCHANGED notCfg

NextEnv ==
    \/ LoadEnv
    \/ ServeWithDomain("ssoGoogle")
    \/ ServeWithDomain("getTimeoffList")

SpecEnv == InitEnv /\ [][NextEnv]_vars

\* C22: when one of GOOGLE_CLIENT_ID, GOOGLE_CLIENT_SECRET, AUTH_SECRET,
\* BASE_DOMAIN is missing or empty, loading the configuration module fails:
\* the application never serves a request and no code path finds the value
\* missing at its first use.
C22_MissingConfigAbortsStartup ==
    (\E v \in RequiredVars : cfg.env[v] \in {"missing", "empty"})
        => /\ cfg.pc # "serving"
           /\ cfg.handled = 0
           /\ cfg.firstUse = "none"

(***************************************************************************)
(* Route protection: the auth wrapper of the middleware and of the proxy.  *)
(* A pathname is a sequence of pieces: "/", names, and file extensions.    *)
(***************************************************************************)
\* String.prototype.startsWith
StartsWith(s, prefix) ==
    Len(prefix) <= Len(s) /\ SubSeq(s, 1, Len(prefix)) = prefix

publicRoutes == {<<"/">>, <<"/", "sign-in">>, <<"/", "api", "/", "webhook">>}

isPublicRoute(pathname) ==
    \E route \in publicRoutes : pathname = route \/ StartsWith(pathname, route \o <<"/">>)

\* config.matcher: every path but /_next... and paths holding a static file
\* extension, and every path under /api or /trpc
matcher(pathname) ==
    \/ /\ ~StartsWith(pathname, <<"/", "_next">>)
       /\ \A i \in 1..Len(pathname) : pathname[i] # ".csv"
    \/ StartsWith(pathname, <<"/", "api">>)
    \/ StartsWith(pathname, <<"/", "trpc">>)

Continue == [kind |-> "next", to |-> <<>>, callbackUrl |-> <<>>, error |-> "none"]
RedirectToSignIn(pathname, error) ==
    [kind |-> "redirect", to |-> <<"/", "sign-in">>, callbackUrl |-> pathname, error |-> error]

\* proxy: only the session is checked
proxy(pathname, auth) ==
    IF isPublicRoute(pathname) THEN Continue
    ELSE IF StartsWith(pathname, <<"/", "admin">>) /\ auth = None
    THEN RedirectToSignIn(pathname, "none")
    ELSE Continue

\* middleware: the session and its Base access token are checked
middleware(pathname, auth) ==
    IF isPublicRoute(pathname) THEN Continue
    ELSE IF StartsWith(pathname, <<"/", "admin">>) /\ auth = None
    THEN RedirectToSignIn(pathname, "none")
    ELSE IF StartsWith(pathname, <<"/", "admin">>) /\ ~TruthyStr(Val(auth).baseAccessToken)
    THEN RedirectToSignIn(pathname, "base_access_denied")
    ELSE Continue

InitMw ==
    /\ now = 0
    /\ UtilIdle
    /\ ExchangeIdle
    /\ MainIdle
    /\ AuxIdle
    /\ cfg = Off /\ hdr = Off /\ race = Off /\ api = Off /\ goog = Off
    /\ \E v \in {"middleware", "proxy"},
          pathname \in {<<"/">>, <<"/", "sign-in">>, <<"/", "sign-in", "/", "x">>,
                        <<"/", "sign-in", "x">>,
                        <<"/", "api", "/", "webhook">>, <<"/", "api", "/", "webhook", "/", "x">>,
                        <<"/", "api", "/", "timeoff">>,
                        <<"/", "admin">>, <<"/", "admin", "/", "timeoff">>,
                        <<"/", "admin", "x">>, <<"/", "admin", "/", "x", ".csv">>,
                        <<"/", "admin", "/", "x", ".json">>,
                        <<"/", "_next", "/", "x">>, <<"/", "x">>},
          auth \in {None, Some([baseAccessToken |-> None]),
                    Some([baseAccessToken |-> Some(<<>>)]),
                    Some([baseAccessToken |-> Some(TokB)])} :
          mw = [pc |-> "arrived", variant |-> v, pathname |-> pathname, auth |-> auth,
                ran |-> FALSE, response |-> Continue]

\* the request does not match config.matcher: it is served without the wrapper
SkipUnmatched ==
    /\ mw.pc = "arrived" /\ ~matcher(mw.pathname)
    /\ mw' = [mw EXCEPT !.pc = "done", !.response = Continue]
    /\ UNCHANGED notMw

RunMiddleware ==
    /\ mw.pc = "arrived" /\ matcher(mw.pathname) /\ mw.variant = "middleware"
    /\ mw' = [mw EXCEPT !.pc = "done", !.ran = TRUE,
                        !.response = middleware(mw.pathname, mw.auth)]
    /\ UNCHANGED notMw

RunProxy ==
    /\ mw.pc = "arrived" /\ matcher(mw.pathname) /\ mw.variant = "proxy"
    /\ mw' = [mw EXCEPT !.pc = "done", !.ran = TRUE,
                        !.response = proxy(mw.pathname, mw.auth)]
    /\ UNCHANGED notMw

NextMw == SkipUnmatched \/ RunMiddleware \/ RunProxy

SpecMw == InitMw /\ [][NextMw]_vars

\* C23: a request under /admin continues only with a session that holds a
\* Base access token; without a session it is redirected to /sign-in with
\* callbackUrl = the path, and with a session lacking the Base token also
\* with error=base_access_denied.  /, /sign-in, /api/webhook and their
\* sub-paths always continue.
C23_AdminNeedsBaseSession ==
    mw.pc = "done" =>
        /\ isPublicRoute(mw.pathname) => mw.response = Continue
        /\ (StartsWith(mw.pathname, <<"/", "admin">>) /\ ~isPublicRoute(mw.pathname)) =>
            IF mw.auth = None
            THEN mw.response = RedirectToSignIn(mw.pathname, "none")
            ELSE IF ~TruthyStr(Val(mw.auth).baseAccessToken)
            THEN mw.response = RedirectToSignIn(mw.pathname, "base_access_denied")
            ELSE mw.response = Continue

(***************************************************************************)
(* lib/fetch-client: the headers FetchClient.request prepares.  A headers  *)
(* record maps each key it may hold to an optional value; its keys are     *)
(* case-sensitive, the header names on the wire are not.                   *)
(***************************************************************************)
HeaderKeys == {"Content-Type", "content-type"}

NoHeaders == [k \in HeaderKeys |-> None]

\* { ...a, ...b }
Spread(a, b) == [k \in HeaderKeys |-> IF b[k] # None THEN b[k] ELSE a[k]]

createDefaultHeaders(customHeaders, includeContentType, bodyType, defaultHeaders) ==
    LET headers ==
            IF includeContentType /\ customHeaders["Content-Type"] \in {None, Some("")}
            THEN [NoHeaders EXCEPT !["Content-Type"] =
                     IF bodyType = "form" THEN Some("application/x-www-form-urlencoded")
                     ELSE Some("application/json")]
            ELSE NoHeaders
    IN  Spread(Spread(headers, defaultHeaders), customHeaders)

prepareRequestHeaders(method, body, customHeaders, defaultHeaders) ==
    IF body = "FormData"
    THEN createDefaultHeaders(customHeaders, FALSE, "json", defaultHeaders)
    ELSE LET shouldIncludeContentType == method # "GET" /\ body # "undefined"
             bodyType == IF body = "URLSearchParams" THEN "form" ELSE "json"
         IN  createDefaultHeaders(customHeaders, shouldIncludeContentType, bodyType,
                                  defaultHeaders)

\* new Headers(record): the values sent under the name content-type
WireContentType(headers) == {Val(headers[k]) : k \in {j \in HeaderKeys : headers[j] # None}}

InitHdr ==
    /\ now = 0
    /\ UtilIdle
    /\ ExchangeIdle
    /\ MainIdle
    /\ AuxIdle
    /\ cfg = Off /\ mw = Off /\ race = Off /\ api = Off /\ goog = Off
    /\ \E method \in {"GET", "POST", "PUT"},
          body \in {"object", "URLSearchParams", "FormData", "string", "undefined"},
          custom \in {NoHeaders,
                      [NoHeaders EXCEPT !["Content-Type"] = Some("text/plain")],
                      [NoHeaders EXCEPT !["content-type"] = Some("text/plain")]},
          defaults \in {NoHeaders, [NoHeaders EXCEPT !["Content-Type"] = Some("text/xml")]} :
          hdr = [pc |-> "called", method |-> method, body |-> body,
                 customHeaders |-> custom, defaultHeaders |-> defaults,
                 headers |-> NoHeaders]

\* request(): const headers = this.prepareRequestHeaders({ method, body, customHeaders })
PrepareHeaders ==
    /\ hdr.pc = "called"
    /\ hdr' = [hdr EXCEPT !.pc = "prepared",
                          !.headers = prepareRequestHeaders(hdr.method, hdr.body,
                                          hdr.customHeaders, hdr.defaultHeaders)]
    /\ UNCHANGED notHdr

NextHdr == PrepareHeaders

SpecHdr == InitHdr /\ [][NextHdr]_vars

\* the Content-Type of the documented table
TableContentType(body) ==
    CASE body = "object" -> {"application/json"}
      [] body = "URLSearchParams" -> {"application/x-www-form-urlencoded"}
      [] OTHER -> {}

\* C24: for a non-GET request without configured default headers, the
\* Content-Type sent is the one of the table (application/json for an
\* object, application/x-www-form-urlencoded for URLSearchParams, none for
\* FormData, a string and no body), and a Content-Type given in the headers
\* option replaces it.
C24_ContentTypeByBodyType ==
    (hdr.pc = "prepared" /\ hdr.method # "GET" /\ hdr.defaultHeaders = NoHeaders) =>
        IF hdr.customHeaders = NoHeaders
        THEN WireContentType(hdr.headers) = TableContentType(hdr.body)
        ELSE WireContentType(hdr.headers) = {"text/plain"}

(***************************************************************************)
(* Two session reads of one Identity Session running the jwt callback of   *)
(* auth.ts at the same time, against a downstream that keeps one valid     *)
(* refresh token per session.                                              *)
(***************************************************************************)
MaxReads == 3

Reads == {"r1", "r2"}
RefS == <<"s">>

\* the refresh token the downstream issues after r
NextRefresh(r) == IF r = RefR THEN RefQ ELSE RefS

\* the downstream refresh endpoint: what it answers to a refresh token, and
\* the refresh token that is valid afterwards
DownstreamRefresh(submitted, valid, rotates) ==
    IF submitted = valid
    THEN [outcome |-> HttpResponse(200, ObjectBody(Some(1), StringField(TokC),
                                      StringField(IF rotates THEN NextRefresh(valid)
                                                  ELSE valid))),
          valid |-> IF rotates THEN NextRefresh(valid) ELSE valid]
    ELSE [outcome |-> HttpResponse(401, ObjectBody(Some(0), AbsentField, AbsentField)),
          valid |-> valid]

InitRace ==
    /\ now = 2 * TickMs
    /\ UtilIdle
    /\ ExchangeIdle
    /\ MainIdle
    /\ AuxIdle
    /\ cfg = Off /\ mw = Off /\ hdr = Off /\ api = Off /\ goog = Off
    /\ \E a \in {TokA, TokB, TokC}, rotates \in BOOLEAN :
          LET t == [NewToken([id |-> Some(<<"u">>), email |-> Some(Email)],
                             [access_token |-> Some(GoogleTok), refresh_token |-> None])
                    EXCEPT !.baseAccessToken = Some(a),
                           !.baseRefreshToken = Some(RefR),
                           !.baseExpiresAt = getJwtExpiration(a)]
          IN  race = [pc |-> "on", cookie |-> t, rotates |-> rotates, valid |-> RefR,
                      rd |-> [r \in Reads |-> [pc |-> "idle", tok |-> t, n |-> 0]],
                      submitted |-> [v \in {RefR, RefQ, RefS} |-> 0],
                      refreshed |-> FALSE]

\* a session read starts: the jwt callback gets the token of the cookie and
\* either awaits refreshToken or returns the token unchanged
RaceRead(r) ==
    /\ race.pc = "on" /\ race.rd[r].pc = "idle" /\ race.rd[r].n < MaxReads
    /\ LET t == race.cookie IN
       IF /\ TruthyStr(t.baseAccessToken) /\ TruthyStr(t.baseRefreshToken)
          /\ jwtShouldRefresh(t, now)
       THEN race' = [race EXCEPT
                       !.rd[r] = [pc |-> "refresh", tok |-> t, n |-> @.n + 1],
                       !.submitted[Val(t.baseRefreshToken)] = @ + 1]
       ELSE race' = [race EXCEPT !.rd[r] = [pc |-> "idle", tok |-> t, n |-> @.n + 1]]
    /\ UNCHANGED notRace

\* the downstream answers the read's refresh call; the callback stores or
\* clears the Base tokens and the returned token becomes the cookie
RaceRefreshReturn(r) ==
    /\ race.pc = "on" /\ race.rd[r].pc = "refresh"
    /\ LET tk == race.rd[r].tok
           d == DownstreamRefresh(Val(tk.baseRefreshToken), race.valid, race.rotates)
           res == refreshToken([emailValid |-> TRUE, token |-> tk.baseRefreshToken],
                               d.outcome)
           ok == ~res.thrown /\ res.success /\ res.hasData
           t == IF ok THEN StoreRefresh(tk, res) ELSE ClearBaseTokens(tk)
       IN  race' = [race EXCEPT !.rd[r].pc = "idle", !.rd[r].tok = t,
                                !.cookie = t, !.valid = d.valid,
                                !.refreshed = @ \/ ok]
    /\ UNCHANGED notRace

NextRace ==
    \/ \E r \in Reads : RaceRead(r)
    \/ \E r \in Reads : RaceRefreshReturn(r)

SpecRace == InitRace /\ [][NextRace]_vars

\* C25: with concurrent reads of one session, each refresh-token value is
\* submitted to the downstream at most once, and a session whose refresh
\* succeeded keeps its Base tokens.
C25_RefreshTokenSubmittedOnce ==
    /\ \A v \in DOMAIN race.submitted : race.submitted[v] <= 1
    /\ race.refreshed => TruthyStr(race.cookie.baseAccessToken)

(***************************************************************************)
(* auth.ts: callbacks.session, and the claims on the session token.        *)
(***************************************************************************)
\* the Base fields callbacks.session copies from the token to the session
sessionCallback(token) ==
    [baseAccessToken |-> IF TruthyStr(token.baseAccessToken)
                         THEN token.baseAccessToken ELSE None,
     baseRefreshToken |-> IF TruthyStr(token.baseRefreshToken)
                          THEN token.baseRefreshToken ELSE None,
     baseExpiresAt |-> IF TruthyNum(token.baseExpiresAt)
                       THEN token.baseExpiresAt ELSE None]

C27_BothBaseTokensOrNeither ==
    variant = "session" =>
        /\ cookie # None =>
              (Val(cookie).baseAccessToken # None <=> Val(cookie).baseRefreshToken # None)
        /\ jwtPc = "idle" =>
              (tok.baseAccessToken # None <=> tok.baseRefreshToken # None)

C27_Witness ==
    /\ variant = "session" /\ jwtPc = "idle" /\ jwtHist.refresh = "ok"
    /\ jwtHist.respRefresh = None
    /\ cookie # None
    /\ Val(cookie).baseAccessToken # None /\ Val(cookie).baseRefreshToken # None

\* C28: a token returned by the jwt callback that carries baseExpiresAt
\* carries it as the expiry decoded from its own baseAccessToken.
C28_ExpiresAtOfCarriedToken ==
    (variant = "session" /\ cookie # None /\ Val(cookie).baseExpiresAt # None)
        => /\ Val(cookie).baseAccessToken # None
           /\ Val(cookie).baseExpiresAt = getJwtExpiration(Val(Val(cookie).baseAccessToken))

(***************************************************************************)
(* GET /api/timeoff: the wrapper, the route, getTimeoffList without        *)
(* options and the two getBaseAccessToken helpers.                         *)
(***************************************************************************)
\* lib/utils/base-api.ts: session?.baseAccessToken
getBaseAccessToken_utils(sess, envToken) ==
    IF sess = None THEN None ELSE Val(sess).baseAccessToken

\* session?.baseAccessToken || process.env.BASE_ACCESS_TOKEN
getBaseAccessToken(sess, envToken) ==
    IF sess # None /\ TruthyStr(Val(sess).baseAccessToken)
    THEN Val(sess).baseAccessToken
    ELSE envToken

\* getTimeoffList after the list request settled: the result's success
timeoffListResult(outcome) ==
    /\ outcome.kind = "response"
    /\ ResponseOk(outcome.status)
    /\ outcome.body.json = "object"
    /\ outcome.body.code = Some(1)

NoApiResponse == [status |-> 0, success |-> FALSE, records |-> FALSE]

InitApi ==
    /\ now = 0
    /\ UtilIdle
    /\ ExchangeIdle
    /\ MainIdle
    /\ AuxIdle
    /\ cfg = Off /\ mw = Off /\ hdr = Off /\ race = Off /\ goog = Off
    /\ \E v \in {"middleware", "proxy"}, helper \in {"utils", "env"},
          auth \in {None, Some([baseAccessToken |-> None]),
                    Some([baseAccessToken |-> Some(<<>>)]),
                    Some([baseAccessToken |-> Some(TokB)])},
          envToken \in {None, Some(TokA)} :
          api = [pc |-> "arrived", variant |-> v, helper |-> helper, auth |-> auth,
                 BASE_ACCESS_TOKEN |-> envToken, sent |-> FALSE, credential |-> None,
                 response |-> NoApiResponse]

\* the auth wrapper runs for /api/timeoff
ApiWrapper ==
    /\ api.pc = "arrived"
    /\ LET pathname == <<"/", "api", "/", "timeoff">>
           r == IF api.variant = "proxy" THEN proxy(pathname, api.auth)
                ELSE middleware(pathname, api.auth)
       IN  api' = [api EXCEPT !.pc = IF matcher(pathname) /\ r # Continue
                                    THEN "redirected" ELSE "route"]
    /\ UNCHANGED notApi

\* GET: getTimeoffList() up to the list request
ApiGetTimeoffList ==
    /\ api.pc = "route"
    /\ LET sessionAccessToken ==
               IF api.helper = "utils"
               THEN getBaseAccessToken_utils(api.auth, api.BASE_ACCESS_TOKEN)
               ELSE getBaseAccessToken(api.auth, api.BASE_ACCESS_TOKEN)
       IN  IF ~TruthyStr(sessionAccessToken)
           THEN api' = [api EXCEPT !.pc = "done",
                                  !.response = [status |-> 500, success |-> FALSE,
                                                records |-> FALSE]]
           ELSE api' = [api EXCEPT !.pc = "list", !.sent = TRUE,
                                  !.credential = sessionAccessToken]
    /\ UNCHANGED notApi

\* the list request settles and GET answers
ApiListReturn(outcome) ==
    /\ api.pc = "list"
    /\ api' = [api EXCEPT !.pc = "done",
                          !.response = IF timeoffListResult(outcome)
                                       THEN [status |-> 200, success |-> TRUE,
                                             records |-> TRUE]
                                       ELSE [status |-> 500, success |-> FALSE,
                                             records |-> FALSE]]
    /\ UNCHANGED notApi

NextApi ==
    \/ ApiWrapper
    \/ ApiGetTimeoffList
    \/ \E outcome \in {NetworkError,
                        HttpResponse(200, ObjectBody(Some(1), AbsentField, AbsentField)),
                        HttpResponse(200, ObjectBody(Some(0), AbsentField, AbsentField)),
                        HttpResponse(200, NoBody("nonobject")),
                        HttpResponse(401, ObjectBody(Some(0), AbsentField, AbsentField))} :
          ApiListReturn(outcome)

SpecApi == InitApi /\ [][NextApi]_vars

\* C29: GET /api/timeoff returns success with records only to a request of
\* a signed-in session that holds a Base access token; any other request
\* causes no downstream list call with any credential.
C29_NoSessionNoTimeoffData ==
    (api.auth = None \/ ~TruthyStr(Val(api.auth).baseAccessToken))
        => /\ ~api.sent
           /\ api.credential = None
           /\ ~(api.response.success /\ api.response.records)

(***************************************************************************)
(* The Google-refresh variant of the NextAuth configuration: the jwt       *)
(* callback refreshes the Google access token once it has expired.         *)
(***************************************************************************)
GoogleStepMs == 1500
MaxGoogleMs == 6000

\* refreshedTokens.expires_in ?? 3600, account.expires_at ?? now + 3600
defaultExpiresIn == 3600

GoogleTok2 == <<"g", "2">>
GoogleRefreshTok == <<"r">>
GoogleRefreshTok2 == <<"r", "2">>

NoBaseUpdate == [baseAccessToken |-> None, baseRefreshToken |-> None,
                 baseExpiresAt |-> None]

\* what the POST to oauth2.googleapis.com/token does
GoogleRejects == [kind |-> "reject", ok |-> FALSE, access_token |-> None,
                  expires_in |-> None, refresh_token |-> None]
GoogleAnswers(ok, access_token, expires_in, refresh_token) ==
    [kind |-> "response", ok |-> ok, access_token |-> access_token,
     expires_in |-> expires_in, refresh_token |-> refresh_token]

GoogleOutcomes ==
    {GoogleRejects,
     GoogleAnswers(FALSE, None, None, None),
     GoogleAnswers(TRUE, Some(GoogleTok2), None, None),
     GoogleAnswers(TRUE, Some(GoogleTok2), Some(1), Some(GoogleRefreshTok2))}

\* refreshGoogleAccessToken: [thrown, token]; a rejected fetch and a
\* response that is not ok both end in the catch block
refreshGoogleAccessToken(token, outcome, nowMs) ==
    IF ~TruthyStr(token.googleRefreshToken)
    THEN [thrown |-> TRUE, token |-> token]
    ELSE IF outcome.kind = "response" /\ outcome.ok
    THEN [thrown |-> FALSE,
          token |-> [token EXCEPT
              !.googleAccessToken = outcome.access_token,
              !.googleExpiresAt =
                  Some((nowMs + 1000 * (IF outcome.expires_in = None
                                        THEN defaultExpiresIn
                                        ELSE Val(outcome.expires_in))) \div 1000),
              !.googleRefreshToken =
                  IF outcome.refresh_token = None THEN token.googleRefreshToken
                  ELSE outcome.refresh_token]]
    ELSE [thrown |-> FALSE,
          token |-> [token EXCEPT !.error = Some("RefreshTokenError")]]

\* the condition of callbacks.jwt under which the Google token is refreshed
GoogleNeedsRefresh(token, nowMs) ==
    /\ TruthyStr(token.googleRefreshToken)
    /\ token.googleExpiresAt # None
    /\ nowMs >= Val(token.googleExpiresAt) * 1000

\* callbacks.jwt without account: [token, attempt], attempt being what the
\* refresh of this call did ("none" when no refresh was due)
googleJwt(token, update, outcome, nowMs) ==
    IF GoogleNeedsRefresh(token, nowMs)
    THEN LET r == refreshGoogleAccessToken(token, outcome, nowMs)
         IN  IF r.thrown
             THEN [token |-> [token EXCEPT !.error = Some("RefreshTokenError")],
                   attempt |-> "failed"]
             ELSE [token |-> r.token,
                   attempt |-> IF outcome.kind = "response" /\ outcome.ok
                               THEN "succeeded" ELSE "failed"]
    ELSE IF update # None
    THEN LET u == Val(update)
         IN  [token |-> [token EXCEPT
                  !.baseAccessToken = IF TruthyStr(u.baseAccessToken)
                                      THEN u.baseAccessToken ELSE @,
                  !.baseRefreshToken = IF TruthyStr(u.baseRefreshToken)
                                       THEN u.baseRefreshToken ELSE @,
                  !.baseExpiresAt = IF u.baseExpiresAt # None
                                    THEN u.baseExpiresAt ELSE @],
              attempt |-> "none"]
    ELSE [token |-> token, attempt |-> "none"]

\* callbacks.session: the error the session exposes
googleSessionError(token) ==
    IF token.error = Some("RefreshTokenError") THEN token.error ELSE None

InitGoogle ==
    /\ now = 0
    /\ UtilIdle
    /\ ExchangeIdle
    /\ MainIdle
    /\ AuxIdle
    /\ cfg = Off /\ mw = Off /\ hdr = Off /\ race = Off /\ api = Off
    /\ goog = [pc |-> "signedOut", nowMs |-> 0, token |-> None, last |-> "none",
               sessionError |-> None]

\* callbacks.jwt with account and user: the sign-in; NextAuth hands it the
\* default token of the signed-in profile, which has no error key
GoogleSignIn(refresh_token, expires_at) ==
    /\ goog.pc = "signedOut"
    /\ goog' = [goog EXCEPT
           !.pc = "signedIn",
           !.token = Some([googleAccessToken |-> Some(GoogleTok),
                           googleRefreshToken |-> refresh_token,
                           googleExpiresAt |->
                               IF expires_at = None
                               THEN Some((goog.nowMs + 1000 * defaultExpiresIn) \div 1000)
                               ELSE expires_at,
                           baseAccessToken |-> None,
                           baseRefreshToken |-> None,
                           baseExpiresAt |-> None,
                           error |-> None])]
    /\ UNCHANGED notGoog

\* a session read or update: callbacks.jwt, then callbacks.session on the
\* token it returned
GoogleJwt(update, outcome) ==
    /\ goog.pc = "signedIn"
    /\ LET r == googleJwt(Val(goog.token), update, outcome, goog.nowMs)
       IN  goog' = [goog EXCEPT
               !.token = Some(r.token),
               !.last = IF r.attempt = "none" THEN @ ELSE r.attempt,
               !.sessionError = googleSessionError(r.token)]
    /\ UNCHANGED notGoog

GoogleElapse ==
    /\ goog.pc = "signedIn"
    /\ goog.nowMs + GoogleStepMs <= MaxGoogleMs
    /\ goog' = [goog EXCEPT !.nowMs = @ + GoogleStepMs]
    /\ UNCHANGED notGoog

NextGoogle ==
    \/ \E refresh_token \in {None, Some(GoogleRefreshTok)},
          expires_at \in {None, Some(1), Some(4)} :
          GoogleSignIn(refresh_token, expires_at)
    \/ \E update \in {None, Some(NoBaseUpdate),
                      Some([baseAccessToken |-> Some(TokA),
                            baseRefreshToken |-> Some(TokB),
                            baseExpiresAt |-> Some(300)])},
          outcome \in GoogleOutcomes :
          GoogleJwt(update, outcome)
    \/ GoogleElapse

SpecGoogle == InitGoogle /\ [][NextGoogle]_vars

\* C30: in the Google-refresh variant the session token (and the session
\* made from it) carries error = "RefreshTokenError" only while the most
\* recent Google refresh attempt failed; after a refresh succeeds the
\* returned token carries no error, whatever earlier attempts did.
C30_ErrorOnlyWhileLastRefreshFailed ==
    goog.pc = "signedIn"
        => /\ (Val(goog.token).error # None => goog.last = "failed")
           /\ (goog.sessionError # None => goog.last = "failed")

====
